---- MODULE Spec2Model ----
(***************************************************************************)
(* Model of the HR airdrop MCP server (HRAirdropServer) and of the batched *)
(* distribution engine it drives (sendCompressedAirdrop).                   *)
(*                                                                         *)
(* One action per tool handler.  A handler runs to completion inside its   *)
(* action; what the external collaborators (ledger, custody provider,      *)
(* notifier, file system) answer is an input of the action.                *)
(***************************************************************************)
EXTENDS Integers, Sequences, FiniteSets, TLC

(***************************************************************************)
(* Bounds of the model.                                                    *)
(***************************************************************************)
\* longest employee text (lines) fed to generate_wallets in the registry specification
MaxLines == 2
\* longest CSV file (rows) fed to upload_csv in the registry specification
MaxRows == 2
\* largest on-chain SOL balance (whole SOL) a connected keypair can hold
MaxSol == 1
\* largest registry the distribution specification starts from
MaxRecipients == 11
\* largest registry the allocation specification starts from
MaxAllocated == 2
\* largest registry the engine specification distributes to
MaxBatched == 13

(***************************************************************************)
(* Optional values: undefined / null is the empty set, a value x is {x}.   *)
(***************************************************************************)
None == {}
Some(x) == {x}
The(s) == CHOOSE x \in s : TRUE

Min(a, b) == IF a < b THEN a ELSE b

(***************************************************************************)
(* Strings whose letter case matters are sequences of one-letter strings.  *)
(* The empty sequence is the empty string, which JavaScript treats like    *)
(* undefined in every test the handlers make (!x, x || y, x && y).         *)
(***************************************************************************)
UpperLetters == <<"A","B","C","D","E","F","G","H","I","J","K","L","M",
                  "N","O","P","Q","R","S","T","U","V","W","X","Y","Z">>
LowerLetters == <<"a","b","c","d","e","f","g","h","i","j","k","l","m",
                  "n","o","p","q","r","s","t","u","v","w","x","y","z">>

\* the lower-case letter of each upper-case letter
LowerOf ==
    [c \in {UpperLetters[i] : i \in DOMAIN UpperLetters} |->
        LowerLetters[CHOOSE i \in DOMAIN UpperLetters : UpperLetters[i] = c]]

LowerChar(c) == IF c \in DOMAIN LowerOf THEN LowerOf[c] ELSE c

\* String.prototype.toLowerCase
ToLowerCase(s) == [i \in DOMAIN s |-> LowerChar(s[i])]

R_operational == <<"o","p","e","r","a","t","i","o","n","a","l">>
R_developer == <<"d","e","v","e","l","o","p","e","r">>
R_manager == <<"m","a","n","a","g","e","r">>
R_VP == <<"V","P">>
R_VIP == <<"V","I","P">>
R_vp == <<"v","p">>
R_vip == <<"v","i","p">>
R_Developer == <<"D","e","v","e","l","o","p","e","r">>
R_Intern == <<"I","n","t","e","r","n">>
NoRole == <<>>

\* const validRoles = ['operational', 'developer', 'manager', 'VP', 'VIP']
validRoles == {R_operational, R_developer, R_manager, R_VP, R_VIP}

(***************************************************************************)
(* ServerState, the environment and the response of the last tool call.    *)
(***************************************************************************)
VARIABLES
    connectedWallet,   \* None or Some([publicKey, solBalance])
    createdToken,      \* None or Some([name, symbol, mintAddress, supply, decimals])
    employees,         \* sequence of [email, name, role, walletAddress, tokenAmount]
    airdropStatus,     \* [started, completed, successful, failed]
    emailsStatus,      \* [sent, successful, failed]
    heliusKey,         \* process.env.HELIUS_API_KEY is set
    response,          \* what the last CallTool request gave back
    distribution,      \* the start_airdrop call that awaits the ledger
    chain,             \* the token accounts and transfers on the ledger
    poll               \* the SOL transfer that awaits its confirmation

state == <<connectedWallet, createdToken, employees, airdropStatus, emailsStatus>>
vars == <<connectedWallet, createdToken, employees, airdropStatus, emailsStatus,
          heliusKey, response, distribution, chain, poll>>

(***************************************************************************)
(* Responses.  A handler either returns a result, throws an McpError with  *)
(* an ErrorCode, or throws another error (Error, ZodError).                *)
(***************************************************************************)
Outcome(kind, code, about) ==
    [kind |-> kind, code |-> code, about |-> about, prompt |-> FALSE,
     email |-> "", role |-> NoRole, listsRoles |-> FALSE,
     invoked |-> {}, simulated |-> {}, batches |-> 0, submitted |-> 0,
     total |-> 0, fees |-> None, snapshot |-> None]

Return(about) == Outcome("return", "", about)

\* throws an error where the handler asks for a key
Prompt_Throws(about) == Outcome("Error", "", about)

Prompt(about) == [Return(about) EXCEPT !.prompt = TRUE]
ThrowMcp(code, about) == Outcome("McpError", code, about)
ThrowError(about) == Outcome("Error", "", about)

Invoking(o, who) == [o EXCEPT !.invoked = @ \cup who]

\* the employees (by position) for whom the call logged a fall-back to a
\* simulation after a failure of the collaborator
Simulating(o, whom) == [o EXCEPT !.simulated = whom]

\* returns every error as a result flagged isError
CallTool_ReturnsEveryError(op, o) ==
    [op |-> op,
     kind |-> "result",
     isError |-> o.kind \in {"McpError", "Error"},
     code |-> o.code, about |-> o.about, prompt |-> o.prompt,
     email |-> o.email, role |-> o.role, listsRoles |-> o.listsRoles,
     invoked |-> o.invoked, simulated |-> o.simulated, batches |-> o.batches,
     submitted |-> o.submitted, total |-> o.total, fees |-> o.fees,
     snapshot |-> o.snapshot]

\* The CallToolRequestSchema handler: an McpError is thrown again and
\* reaches the client as a protocol error carrying its code; any other error
\* becomes a result flagged isError.
CallTool(op, o) ==
    [op |-> op,
     kind |-> IF o.kind = "McpError" THEN "protocolError" ELSE "result",
     isError |-> o.kind = "Error",
     code |-> o.code, about |-> o.about, prompt |-> o.prompt,
     email |-> o.email, role |-> o.role, listsRoles |-> o.listsRoles,
     invoked |-> o.invoked, simulated |-> o.simulated, batches |-> o.batches,
     submitted |-> o.submitted, total |-> o.total, fees |-> o.fees,
     snapshot |-> o.snapshot]

NoResponse == CallTool("", Outcome("return", "", ""))

Failed(r) == r.kind = "protocolError" \/ r.isError

\* The kinds of the error taxonomy as the server tells them apart.
PreconditionError(r) == r.kind = "protocolError" /\ r.code = "InvalidRequest"
ValidationError(r) == r.kind = "protocolError" /\ r.code = "InvalidParams"
ExecutionError(r) == r.kind = "protocolError" /\ r.code = "InternalError"

(***************************************************************************)
(* The locals of a start_airdrop call between its awaits:                  *)
(*   pc         : "idle" (no call awaits the ledger), "sender" (awaiting   *)
(*                the look-up of the sender's token account), "build"      *)
(*                (about to build the transaction of batch i + 1) or       *)
(*                "confirm" (awaiting sendAndConfirmTransaction)           *)
(*   recipients : the recipients handed to sendCompressedAirdrop           *)
(*   batches, i, txIds : the variables of its loop                         *)
(*   sent       : the batches submitted to the ledger so far, in order     *)
(*   awaiting   : the batches whose submission awaits its confirmation     *)
(*   overlapped : how many other tool calls completed meanwhile (0, 1, 2   *)
(*                for more), an observation the code does not keep         *)
(*   senderChecks : how many times the call has looked up the sender's     *)
(*                token account and found it, an observation too           *)
(*   receivedBefore : what each address had received on the ledger when    *)
(*                the call began, an observation too                       *)
(***************************************************************************)
NoDistribution ==
    [pc |-> "idle", recipients |-> <<>>, batches |-> <<>>, i |-> 0,
     txIds |-> <<>>, sent |-> <<>>, awaiting |-> {}, overlapped |-> 0,
     senderChecks |-> 0, receivedBefore |-> [a \in {} |-> 0]]

(***************************************************************************)
(* The ledger as the distribution sees it:                                 *)
(*   received : for each address that holds a token account of the mint,   *)
(*              how many transfers of the distribution it has received     *)
(*              (1, or 2 for more)                                         *)
(*   transfers : the transfers confirmed so far, as [account, amount]      *)
(*   pending  : the instructions of the transaction awaiting confirmation  *)
(* The engine and the collaborators specifications follow the ledger; the  *)
(* others leave it aside.                                                  *)
(***************************************************************************)
NoChain == [received |-> [a \in {} |-> 0], transfers |-> {}, pending |-> <<>>]

(***************************************************************************)
(* The locals of transferFromCrossmintToTokenCreator while it polls:       *)
(*   pc       : "idle", "polling", "returned" or "thrown"                  *)
(*   status, attempts : the variables of its loop                          *)
(*   observed : the statuses the queries have answered, in order, an       *)
(*              observation the code does not keep                         *)
(*   result   : the transaction id returned, None until then               *)
(***************************************************************************)
NoPoll ==
    [pc |-> "idle", status |-> "pending", attempts |-> 0, observed |-> <<>>,
     result |-> None]

(***************************************************************************)
(* Initial state: the constructor of HRAirdropServer.                      *)
(***************************************************************************)
Init ==
    /\ connectedWallet = None
    /\ createdToken = None
    /\ employees = <<>>
    /\ airdropStatus = [started |-> FALSE, completed |-> FALSE,
                        successful |-> 0, failed |-> 0]
    /\ emailsStatus = [sent |-> FALSE, successful |-> 0, failed |-> 0]
    /\ heliusKey \in BOOLEAN
    /\ response = NoResponse
    /\ distribution = NoDistribution
    /\ chain = NoChain
    /\ poll = NoPoll

(***************************************************************************)
(* A request that names no tool of the server.                             *)
(***************************************************************************)
\* the names the switch of the CallTool handler knows
ToolNames ==
    {"connect_wallet", "connect_crossmint_wallet", "check_balance",
     "create_token", "add_liquidity", "generate_wallets", "upload_csv",
     "calculate_amounts", "calculate_fees", "start_airdrop", "send_emails",
     "get_state"}

\* default: throw new McpError(ErrorCode.MethodNotFound, `Unknown tool: ${name}`)
HandleUnknownTool(name) ==
    /\ name \notin ToolNames
    /\ response' = CallTool(name, ThrowMcp("MethodNotFound", "Unknown tool"))
    /\ UNCHANGED <<state, heliusKey>>

(***************************************************************************)
(* connect_crossmint_wallet                                                *)
(*   args.email    : "ok" (an e-mail address) or "bad" (rejected by zod)   *)
(*   args.apiKey   : None or Some(key)                                     *)
(*   custody       : "ok" or "fail", what the custody provider does        *)
(***************************************************************************)
\* const solBalance = 1.0
CrossmintSolBalance == 1

HandleConnectCrossmintWallet(args, custody) ==
    IF args.email = "bad"
    THEN \* the ZodError is caught by the handler's outer catch
         /\ response' = CallTool("connect_crossmint_wallet",
                ThrowMcp("InternalError", "Failed to connect Crossmint wallet"))
         /\ UNCHANGED <<state, heliusKey>>
    ELSE IF args.apiKey = None
    THEN /\ response' = CallTool("connect_crossmint_wallet",
                Prompt("Please provide your Crossmint API key"))
         /\ UNCHANGED <<state, heliusKey>>
    ELSE /\ connectedWallet' =
                Some([publicKey |-> IF custody = "ok" THEN "crossmint_wallet"
                                    ELSE "crossmint_simulated",
                      solBalance |-> CrossmintSolBalance])
         /\ response' = CallTool("connect_crossmint_wallet",
                Invoking(Return(IF custody = "ok" THEN "Crossmint wallet connected"
                                ELSE "Crossmint wallet connected (simulation)"),
                         {"custody"}))
         /\ UNCHANGED <<createdToken, employees, airdropStatus, emailsStatus,
                        heliusKey>>

(***************************************************************************)
(* connect_wallet                                                          *)
(*   args.privateKey : "ok" (decodes to a keypair) or "bad"                *)
(*   ledger          : "fail" or the balance getBalance reports            *)
(***************************************************************************)
HandleConnectWallet(args, balance) ==
    IF args.privateKey = "bad"
    THEN \* the InvalidParams McpError is wrapped by the handler's outer catch
         /\ response' = CallTool("connect_wallet",
                ThrowMcp("InternalError", "Failed to connect wallet"))
         /\ UNCHANGED <<state, heliusKey>>
    ELSE IF balance = None
    THEN /\ response' = CallTool("connect_wallet",
                Invoking(ThrowMcp("InternalError", "Failed to connect wallet"),
                         {"ledger"}))
         /\ UNCHANGED <<state, heliusKey>>
    ELSE /\ connectedWallet' = Some([publicKey |-> "keypair_wallet",
                                     solBalance |-> The(balance)])
         /\ response' = CallTool("connect_wallet",
                Invoking(Return("Wallet connected"), {"ledger"}))
         /\ UNCHANGED <<createdToken, employees, airdropStatus, emailsStatus,
                        heliusKey>>

(***************************************************************************)
(* check_balance                                                           *)
(***************************************************************************)
CheckBalancePrecondition ==
    IF connectedWallet = None THEN "No wallet connected" ELSE ""

HandleCheckBalance ==
    /\ response' = CallTool("check_balance",
            IF CheckBalancePrecondition # ""
            THEN ThrowMcp("InvalidRequest", CheckBalancePrecondition)
            ELSE Return("balance"))
    /\ UNCHANGED <<state, heliusKey>>

(***************************************************************************)
(* create_token                                                            *)
(*   args   : [name, symbol, supply, decimals], decimals None when omitted *)
(*   ledger : None when createToken throws, else Some(mint address)        *)
(***************************************************************************)
CreateTokenPrecondition ==
    IF connectedWallet = None THEN "No wallet connected" ELSE ""

\* decimals: z.number().min(0).max(9).default(9)
DefaultDecimals == 9

Decimals(args) == IF args.decimals = None THEN DefaultDecimals ELSE The(args.decimals)

\* supply: z.number().positive(), decimals within [0, 9]
CreateTokenArgsValid(args) ==
    /\ args.supply > 0
    /\ Decimals(args) >= 0
    /\ Decimals(args) <= 9

\* this.state.createdToken = {name, symbol, mintAddress, supply, decimals}
CreatedTokenAfter(args, mint) ==
    Some([name |-> args.name, symbol |-> args.symbol, mintAddress |-> mint,
          supply |-> args.supply, decimals |-> Decimals(args)])

HandleCreateToken(args, ledger) ==
    IF CreateTokenPrecondition # ""
    THEN /\ response' = CallTool("create_token",
                ThrowMcp("InvalidRequest", CreateTokenPrecondition))
         /\ UNCHANGED <<state, heliusKey>>
    ELSE IF ~CreateTokenArgsValid(args)
    THEN \* schema.parse throws outside the try block
         /\ response' = CallTool("create_token", ThrowError("ZodError"))
         /\ UNCHANGED <<state, heliusKey>>
    ELSE IF ledger = None
    THEN /\ response' = CallTool("create_token",
                Invoking(ThrowMcp("InternalError", "Token creation failed"),
                         {"ledger"}))
         /\ UNCHANGED <<state, heliusKey>>
    ELSE /\ createdToken' = CreatedTokenAfter(args, The(ledger))
         /\ response' = CallTool("create_token",
                Invoking(Return("Token created successfully"), {"ledger"}))
         /\ UNCHANGED <<connectedWallet, employees, airdropStatus, emailsStatus,
                        heliusKey>>

(***************************************************************************)
(* add_liquidity                                                           *)
(*   args : [tokenAmount, solAmount]                                       *)
(***************************************************************************)
\* tokenAmount and solAmount: z.number().positive()
AddLiquidityArgsValid(args) == args.tokenAmount > 0 /\ args.solAmount > 0

\* add_liquidity without the check of the balance
AddLiquidityPrecondition_NoBalanceCheck(args) ==
    IF connectedWallet = None THEN "No wallet connected"
    ELSE IF createdToken = None THEN "No token created"
    ELSE ""

AddLiquidityPrecondition(args) ==
    IF connectedWallet = None THEN "No wallet connected"
    ELSE IF createdToken = None THEN "No token created"
    ELSE IF AddLiquidityArgsValid(args)
            /\ The(connectedWallet).solBalance < args.solAmount
    THEN "Insufficient SOL balance"
    ELSE ""

HandleAddLiquidity(args) ==
    IF AddLiquidityPrecondition(args) # ""
    THEN /\ response' = CallTool("add_liquidity",
                ThrowMcp("InvalidRequest", AddLiquidityPrecondition(args)))
         /\ UNCHANGED <<state, heliusKey>>
    ELSE IF ~AddLiquidityArgsValid(args)
    THEN /\ response' = CallTool("add_liquidity", ThrowError("ZodError"))
         /\ UNCHANGED <<state, heliusKey>>
    ELSE /\ connectedWallet' =
                Some([The(connectedWallet) EXCEPT !.solBalance = @ - args.solAmount])
         /\ response' = CallTool("add_liquidity", Return("Liquidity added successfully"))
         /\ UNCHANGED <<createdToken, employees, airdropStatus, emailsStatus,
                        heliusKey>>

(***************************************************************************)
(* generate_wallets                                                        *)
(*   args.employees : the text, a sequence of lines; a line is the         *)
(*                    sequence of its comma-separated fields, each already *)
(*                    trimmed; <<"">> is a blank line                      *)
(*   args.apiKey    : None, Some("invalid") (not a ck_/sk_ key of a known  *)
(*                    environment) or Some("valid")                        *)
(*   custody        : [client, answers]; client = "fail" when the custody  *)
(*                    client cannot be built, answers[i] is what the       *)
(*                    provider does for the i-th e-mail                    *)
(***************************************************************************)
GenerateWalletsPrecondition ==
    IF connectedWallet = None THEN "No wallet connected" ELSE ""

IsBlankLine(line) == Len(line) = 1 /\ line[1] = ""

ParseLine(line) ==
    IF Len(line) >= 2
    THEN [name |-> line[1], email |-> line[2]]
    ELSE [name |-> "", email |-> line[1]]

\* employees.split('\n').map(trim).filter(length > 0).map(split(','))
ParseEmployees(text) ==
    LET kept == SelectSeq(text, LAMBDA line : ~IsBlankLine(line))
    IN  [i \in DOMAIN kept |-> ParseLine(kept[i])]

\* The address the custody provider yields for an e-mail:
\*   "custodial" the wallet Crossmint holds for that e-mail (found or created),
\*   "hash"      solana_<hash of the e-mail>, when the provider gave no address,
\*   otherwise   wallet<random>, the simulated address; the answer is the
\*               random suffix.
WalletAddress(email, answer) ==
    IF answer = "custodial" THEN <<"custodial", email>>
    ELSE IF answer = "hash" THEN <<"solana_", email>>
    ELSE <<"wallet", answer>>

IsRandomAnswer(answer) == answer \notin {"custodial", "hash"}

\* leaves out the e-mails the custody provider fails for
createCustodialWallets_SkipsFailed(emails, custody) ==
    LET kept == SelectSeq([i \in DOMAIN emails |-> i],
                          LAMBDA i : ~IsRandomAnswer(custody.answers[i]))
    IN  [k \in DOMAIN kept |->
            [email |-> emails[kept[k]], name |-> "", role |-> NoRole,
             walletAddress |-> WalletAddress(emails[kept[k]],
                                             custody.answers[kept[k]]),
             tokenAmount |-> None]]

\* createCustodialWallets: one {email, walletAddress} per e-mail, in order
createCustodialWallets(emails, custody) ==
    [i \in DOMAIN emails |->
        [email |-> emails[i], name |-> "", role |-> NoRole,
         walletAddress |-> WalletAddress(emails[i], custody.answers[i]),
         tokenAmount |-> None]]

\* accepts an empty list of e-mails
NoEmployeeEmails_Never(emails) == FALSE

\* if (emails.length === 0)
NoEmployeeEmails(emails) == Len(emails) = 0

\* What generate_wallets makes of its arguments: the registry after the
\* call and the outcome of the handler.
GenerateWalletsResult(args, custody) ==
    LET employeeList == ParseEmployees(args.employees)
        emails == [i \in DOMAIN employeeList |-> employeeList[i].email]
    IN
    IF GenerateWalletsPrecondition # ""
    THEN [employees |-> employees,
          outcome |-> ThrowMcp("InvalidRequest", GenerateWalletsPrecondition)]
    ELSE IF args.apiKey = None
    THEN [employees |-> employees,
          outcome |-> Prompt("Please provide your Crossmint API key")]
    ELSE IF NoEmployeeEmails(emails)
    THEN [employees |-> employees,
          outcome |-> ThrowMcp("InvalidParams", "No valid employee emails found")]
    ELSE IF args.apiKey = Some("valid") /\ custody.client = "fail"
    THEN [employees |-> employees,
          outcome |-> Invoking(ThrowMcp("InternalError", "Failed to create wallets"),
                               {"custody"})]
    ELSE [employees |-> createCustodialWallets(emails, custody),
          outcome |->
            Simulating(Invoking(Return("Generated custodial wallets"),
                                IF args.apiKey = Some("valid") THEN {"custody"}
                                ELSE {}),
                       {i \in DOMAIN emails : IsRandomAnswer(custody.answers[i])})]

HandleGenerateWallets(args, custody) ==
    LET result == GenerateWalletsResult(args, custody)
    IN  /\ employees' = result.employees
        /\ response' = CallTool("generate_wallets", result.outcome)
        /\ UNCHANGED <<connectedWallet, createdToken, airdropStatus, emailsStatus,
                       heliusKey>>

\* What the custody provider can answer for a call: with a key of the wrong
\* format every address is a simulated (random) one.
CustodyAnswersFit(args, custody) ==
    /\ Len(custody.answers) = Len(ParseEmployees(args.employees))
    /\ args.apiKey # Some("valid") =>
           /\ custody.client = "ok"
           /\ \A i \in DOMAIN custody.answers : IsRandomAnswer(custody.answers[i])

(***************************************************************************)
(* upload_csv                                                              *)
(*   file : None when the file cannot be read or parsed, else              *)
(*          Some([hasEmailColumn, rows]), rows a sequence of               *)
(*          [email, name, role]; "" and NoRole are empty or missing cells  *)
(***************************************************************************)
EmailIndex(email) ==
    \* new Map(employees.map(e => [e.email, e])): the last record wins
    CHOOSE i \in DOMAIN employees :
        /\ employees[i].email = email
        /\ \A j \in DOMAIN employees : employees[j].email = email => j <= i

HasEmployee(email) == \E i \in DOMAIN employees : employees[i].email = email

\* accepts whatever role the file gives
RoleAccepted_Any(role) == TRUE

\* validRoles.includes(record.role.toLowerCase())
RoleAccepted(role) == ToLowerCase(role) \in validRoles

\* The error the row raises, as [about, email, role, listsRoles]; about = ""
\* when the row passes.
RowError(row) ==
    IF row.email = ""
    THEN [about |-> "Every row must have an email", email |-> "",
          role |-> NoRole, listsRoles |-> FALSE]
    ELSE IF ~HasEmployee(row.email)
    THEN [about |-> "does not match any generated wallet", email |-> row.email,
          role |-> NoRole, listsRoles |-> FALSE]
    ELSE IF row.role # NoRole /\ ~RoleAccepted(row.role)
    THEN [about |-> "Invalid role", email |-> row.email,
          role |-> row.role, listsRoles |-> TRUE]
    ELSE [about |-> "", email |-> "", role |-> NoRole, listsRoles |-> FALSE]

\* builds the record anew from the row, without its token amount
MergeRow_ForgetsAmount(row) ==
    [employees[EmailIndex(row.email)] EXCEPT
        !.name = row.name, !.role = ToLowerCase(row.role), !.tokenAmount = None]

\* {...existingEmployee, name: record.name || undefined,
\*  role: record.role?.toLowerCase() || undefined}
MergeRow(row) ==
    [employees[EmailIndex(row.email)] EXCEPT
        !.name = row.name, !.role = ToLowerCase(row.role)]

\* reports the last rejected row instead of the first
FirstBadRow_Last(rows) ==
    CHOOSE i \in DOMAIN rows :
        /\ RowError(rows[i]).about # ""
        /\ \A j \in (i + 1)..Len(rows) : RowError(rows[j]).about = ""

FirstBadRow(rows) ==
    CHOOSE i \in DOMAIN rows :
        /\ RowError(rows[i]).about # ""
        /\ \A j \in 1..(i - 1) : RowError(rows[j]).about = ""

CsvError(o, e) ==
    [o EXCEPT !.email = e.email, !.role = e.role, !.listsRoles = e.listsRoles]

\* keeps the rows merged before the first rejected row
UploadCsvResult_KeepsEarlierRows(file) ==
    IF file = None
    THEN [employees |-> employees,
          outcome |-> ThrowMcp("InternalError", "Failed to process CSV")]
    ELSE LET csv == The(file)
             rows == csv.rows
         IN
         IF Len(rows) = 0
         THEN [employees |-> employees,
               outcome |-> ThrowMcp("InvalidParams", "CSV file is empty")]
         ELSE IF ~csv.hasEmailColumn
         THEN [employees |-> employees,
               outcome |-> ThrowMcp("InvalidParams",
                                    "CSV file must have an email column")]
         ELSE IF \E i \in DOMAIN rows : RowError(rows[i]).about # ""
         THEN LET e == RowError(rows[FirstBadRow(rows)])
              IN  [employees |-> [i \in 1..(FirstBadRow(rows) - 1) |->
                                    MergeRow(rows[i])],
                   outcome |-> CsvError(ThrowMcp("InvalidParams", e.about), e)]
         ELSE [employees |-> [i \in DOMAIN rows |-> MergeRow(rows[i])],
               outcome |-> Return("CSV data processed successfully")]

\* What upload_csv makes of a file: the registry after the call and the
\* outcome of the handler.
UploadCsvResult(file) ==
    IF file = None
    THEN [employees |-> employees,
          outcome |-> ThrowMcp("InternalError", "Failed to process CSV")]
    ELSE LET csv == The(file)
             rows == csv.rows
         IN
         IF Len(rows) = 0
         THEN [employees |-> employees,
               outcome |-> ThrowMcp("InvalidParams", "CSV file is empty")]
         ELSE IF ~csv.hasEmailColumn
         THEN [employees |-> employees,
               outcome |-> ThrowMcp("InvalidParams",
                                    "CSV file must have an email column")]
         ELSE IF \E i \in DOMAIN rows : RowError(rows[i]).about # ""
         THEN LET e == RowError(rows[FirstBadRow(rows)])
              IN  [employees |-> employees,
                   outcome |-> CsvError(ThrowMcp("InvalidParams", e.about), e)]
         ELSE [employees |-> [i \in DOMAIN rows |-> MergeRow(rows[i])],
               outcome |-> Return("CSV data processed successfully")]

HandleUploadCsv(file) ==
    LET result == UploadCsvResult(file)
    IN  /\ employees' = result.employees
        /\ response' = CallTool("upload_csv", Invoking(result.outcome, {"fs"}))
        /\ UNCHANGED <<connectedWallet, createdToken, airdropStatus,
                       emailsStatus, heliusKey>>

\* A file without an email column has no e-mail in any row.
CsvWellFormed(file) ==
    file # None =>
        (~The(file).hasEmailColumn =>
            \A i \in DOMAIN The(file).rows : The(file).rows[i].email = "")

(***************************************************************************)
(* calculate_amounts                                                       *)
(*   args : [uniformAmount, roleAmounts]; uniformAmount is None or         *)
(*          Some(n); roleAmounts is None or Some(f), f a function from     *)
(*          some of the keys operational, developer, manager, VP, VIP      *)
(***************************************************************************)
\* calculate_amounts that also asks for a created token
CalculateAmountsPrecondition_NeedsToken ==
    IF Len(employees) = 0 THEN "No employees added"
    ELSE IF createdToken = None THEN "No token created"
    ELSE ""

CalculateAmountsPrecondition ==
    IF Len(employees) = 0 THEN "No employees added" ELSE ""

\* every number of the schema is z.number().positive()
CalculateAmountsArgsValid(args) ==
    /\ \A u \in args.uniformAmount : u > 0
    /\ \A f \in args.roleAmounts : \A k \in DOMAIN f : f[k] > 0

\* const defaultRoleTokens = {operational: 100, developer: 200, manager: 300,
\*                            vp: 400, vip: 500}
defaultRoleTokens ==
    [k \in {R_operational, R_developer, R_manager, R_vp, R_vip} |->
        CASE k = R_operational -> 100
          [] k = R_developer -> 200
          [] k = R_manager -> 300
          [] k = R_vp -> 400
          [] k = R_vip -> 500]

\* {...defaultRoleTokens, ...(roleAmounts || {})}
roleTokens(args) ==
    LET given == IF args.roleAmounts = None
                 THEN [k \in {} |-> 0] ELSE The(args.roleAmounts)
    IN  [k \in DOMAIN defaultRoleTokens \cup DOMAIN given |->
            IF k \in DOMAIN given THEN given[k] ELSE defaultRoleTokens[k]]

\* adds the amount to the one the record already has
TokenAmountFor_AddsToPrevious(employee, args) ==
    (IF employee.tokenAmount = None THEN 0 ELSE The(employee.tokenAmount))
    + (IF args.uniformAmount # None THEN The(args.uniformAmount) ELSE 100)

\* the amount of one employee
TokenAmountFor(employee, args) ==
    IF args.uniformAmount # None THEN The(args.uniformAmount)
    ELSE IF employee.role # NoRole
    THEN LET role == ToLowerCase(employee.role)
         IN  IF role \in {R_operational, R_developer, R_manager, R_vp, R_vip}
             THEN roleTokens(args)[role]
             ELSE 100
    ELSE 100

RECURSIVE SumAmounts(_, _)
SumAmounts(list, i) ==
    IF i > Len(list) THEN 0 ELSE The(list[i].tokenAmount) + SumAmounts(list, i + 1)

\* this.state.employees.map(employee => ({...employee, tokenAmount}))
Allocate(list, args) ==
    [i \in DOMAIN list |->
        [list[i] EXCEPT !.tokenAmount = Some(TokenAmountFor(list[i], args))]]

\* What calculate_amounts makes of its arguments: the registry after the
\* call and the outcome of the handler.
CalculateAmountsResult(args) ==
    IF CalculateAmountsPrecondition # ""
    THEN [employees |-> employees,
          outcome |-> ThrowMcp("InvalidRequest", CalculateAmountsPrecondition)]
    ELSE IF ~CalculateAmountsArgsValid(args)
    THEN [employees |-> employees, outcome |-> ThrowError("ZodError")]
    ELSE LET updated == Allocate(employees, args)
         IN  [employees |-> updated,
              outcome |-> [Return("Token amounts calculated successfully")
                            EXCEPT !.total = SumAmounts(updated, 1)]]

HandleCalculateAmounts(args) ==
    LET result == CalculateAmountsResult(args)
    IN  /\ employees' = result.employees
        /\ response' = CallTool("calculate_amounts", result.outcome)
        /\ UNCHANGED <<connectedWallet, createdToken, airdropStatus,
                       emailsStatus, heliusKey>>

(***************************************************************************)
(* calculate_fees                                                          *)
(***************************************************************************)
CalculateFeesPrecondition ==
    IF Len(employees) = 0 THEN "No employees added"
    ELSE IF connectedWallet = None THEN "No wallet connected"
    ELSE ""

\* Fees are counted in millionths of a SOL, the precision calculate_fees
\* reports them with (toFixed(6)).
MicroSolPerSol == 1000000

\* 0.00001 SOL per account
AccountCreationFeePerRecipient == 10

\* 0.000005 SOL per signature
TransactionFeePerRecipient == 5

\* leaves the signatures out of the total
calculateAirdropFees_WithoutSignatures(numberOfRecipients) ==
    [accountCreationFee |-> AccountCreationFeePerRecipient * numberOfRecipients,
     transactionFee |-> TransactionFeePerRecipient * numberOfRecipients,
     totalFees |-> AccountCreationFeePerRecipient * numberOfRecipients]

\* calculateAirdropFees(numberOfRecipients)
calculateAirdropFees(numberOfRecipients) ==
    LET accountCreationFee == AccountCreationFeePerRecipient * numberOfRecipients
        transactionFee == TransactionFeePerRecipient * numberOfRecipients
    IN  [accountCreationFee |-> accountCreationFee,
         transactionFee |-> transactionFee,
         totalFees |-> accountCreationFee + transactionFee]

\* the fees handleCalculateFees works out itself and the funds it reports
CalculateFeesReport ==
    LET employeeCount == Len(employees)
        accountCreationFee == AccountCreationFeePerRecipient * employeeCount
        transactionFee == TransactionFeePerRecipient * employeeCount
        totalFees == accountCreationFee + transactionFee
    IN  [employeeCount |-> employeeCount,
         accountCreationFee |-> accountCreationFee,
         transactionFee |-> transactionFee,
         totalFees |-> totalFees,
         hasSufficientFunds |->
            The(connectedWallet).solBalance * MicroSolPerSol >= totalFees]

HandleCalculateFees ==
    /\ response' = CallTool("calculate_fees",
            IF CalculateFeesPrecondition # ""
            THEN ThrowMcp("InvalidRequest", CalculateFeesPrecondition)
            ELSE [Return("Gas fee calculation")
                    EXCEPT !.fees = Some(CalculateFeesReport)])
    /\ UNCHANGED <<state, heliusKey>>

(***************************************************************************)
(* sendCompressedAirdrop                                                   *)
(*   ledger : [senderAccount, failAt]; senderAccount says whether the      *)
(*            sender's token account exists, failAt = k > 0 makes the      *)
(*            k-th batch fail (0: every batch goes through)                *)
(***************************************************************************)
\* const batchSize = 5
batchSize == 5

RECURSIVE BatchesFrom_DropsRemainder(_, _)
\* leaves out the last batch when it is not full
BatchesFrom_DropsRemainder(recipients, i) ==
    IF i + batchSize <= Len(recipients)
    THEN <<SubSeq(recipients, i + 1, i + batchSize)>>
         \o BatchesFrom_DropsRemainder(recipients, i + batchSize)
    ELSE <<>>

RECURSIVE BatchesFrom(_, _)
\* for (let i = 0; i < recipients.length; i += batchSize)
\*     batches.push(recipients.slice(i, i + batchSize))
BatchesFrom(recipients, i) ==
    IF i < Len(recipients)
    THEN <<SubSeq(recipients, i + 1, Min(i + batchSize, Len(recipients)))>>
         \o BatchesFrom(recipients, i + batchSize)
    ELSE <<>>

RECURSIVE ProcessBatches(_, _, _, _)
\* the loop over the batches; i is the 1-based index of the batch at hand
ProcessBatches(batches, i, txIds, ledger) ==
    IF i > Len(batches)
    THEN [ok |-> TRUE, txIds |-> txIds, batches |-> Len(batches), error |-> ""]
    ELSE IF ledger.failAt = i
    THEN [ok |-> FALSE, txIds |-> txIds, batches |-> i,
          error |-> "Compressed airdrop failed: batch not sent"]
    ELSE ProcessBatches(batches, i + 1, Append(txIds, i), ledger)

sendCompressedAirdrop(recipients, ledger) ==
    IF ~ledger.senderAccount
    THEN [ok |-> FALSE, txIds |-> <<>>, batches |-> 0,
          error |-> "Compressed airdrop failed: Sender's token account does not exist"]
    ELSE ProcessBatches(BatchesFrom(recipients, 0), 1, <<>>, ledger)

(***************************************************************************)
(* start_airdrop                                                           *)
(***************************************************************************)
\* start_airdrop without the check of the token amounts
StartAirdropPrecondition_NoAmountCheck ==
    IF Len(employees) = 0 THEN "No employees added"
    ELSE IF connectedWallet = None THEN "No wallet connected"
    ELSE IF createdToken = None THEN "No token created"
    ELSE ""

StartAirdropPrecondition ==
    IF Len(employees) = 0 THEN "No employees added"
    ELSE IF connectedWallet = None THEN "No wallet connected"
    ELSE IF createdToken = None THEN "No token created"
    ELSE IF \E i \in DOMAIN employees : employees[i].tokenAmount = None
    THEN "Token amounts not calculated"
    ELSE ""

\* amount: employee.tokenAmount || 100
Recipients ==
    [i \in DOMAIN employees |->
        [address |-> employees[i].walletAddress, email |-> employees[i].email,
         amount |-> IF employees[i].tokenAmount \in {None, Some(0)}
                    THEN 100 ELSE The(employees[i].tokenAmount)]]

\* counts the transactions instead of the employees
AirdropStatusAfter_CountsBatches(result) ==
    IF result.ok
    THEN [started |-> TRUE, completed |-> TRUE,
          successful |-> Len(result.txIds), failed |-> 0]
    ELSE airdropStatus

\* reports completion as soon as one batch went through
AirdropStatusAfter_PartialSuccess(result) ==
    IF result.ok \/ Len(result.txIds) > 0
    THEN [started |-> TRUE, completed |-> TRUE,
          successful |-> Len(employees), failed |-> 0]
    ELSE airdropStatus

\* a failed distribution resets the status
AirdropStatusAfter_ResetsOnFailure(result) ==
    IF result.ok
    THEN [started |-> TRUE, completed |-> TRUE,
          successful |-> Len(employees), failed |-> 0]
    ELSE [started |-> TRUE, completed |-> FALSE,
          successful |-> 0, failed |-> Len(employees)]

\* airdropStatus after the distribution returned
AirdropStatusAfter(result) ==
    IF result.ok
    THEN [started |-> TRUE, completed |-> TRUE,
          successful |-> Len(employees), failed |-> 0]
    ELSE airdropStatus

HandleStartAirdrop(ledger) ==
    IF StartAirdropPrecondition # ""
    THEN /\ response' = CallTool("start_airdrop",
                ThrowMcp("InvalidRequest", StartAirdropPrecondition))
         /\ UNCHANGED <<state, heliusKey>>
    ELSE IF ~heliusKey
    THEN /\ response' = CallTool("start_airdrop",
                Prompt("Please provide your Helius API key"))
         /\ UNCHANGED <<state, heliusKey>>
    ELSE LET result == sendCompressedAirdrop(Recipients, ledger)
             report == [(IF result.ok THEN Return("Airdrop completed successfully")
                         ELSE ThrowMcp("InternalError", result.error))
                        EXCEPT !.batches = result.batches,
                               !.submitted = Len(result.txIds)]
         IN  /\ airdropStatus' = AirdropStatusAfter(result)
             /\ response' = CallTool("start_airdrop", Invoking(report, {"ledger"}))
             /\ UNCHANGED <<connectedWallet, createdToken, employees, emailsStatus,
                            heliusKey>>

(***************************************************************************)
(* start_airdrop, one step per await.  The handler checks the state and    *)
(* maps the registry to recipients before the first await; it assigns      *)
(* airdropStatus after sendCompressedAirdrop has returned.  Other tool     *)
(* calls run between these steps.  One start_airdrop call at a time is     *)
(* followed through its awaits.                                            *)
(***************************************************************************)
\* what start_airdrop reports when sendCompressedAirdrop has returned or thrown
DistributionReport(result) ==
    Invoking([(IF result.ok THEN Return("Airdrop completed successfully")
               ELSE ThrowMcp("InternalError", result.error))
              EXCEPT !.batches = result.batches,
                     !.submitted = Len(result.txIds)],
             {"ledger"})

\* the addresses that hold a token account of the mint
Accounts(c) == DOMAIN c.received

\* adds a transfer for a recipient whose account is missing and no
\* instruction creating the account
BuildTransaction_NeverCreates(batch, accounts) ==
    [k \in DOMAIN batch |->
        [kind |-> "transfer", account |-> batch[k].address,
         amount |-> batch[k].amount]]

RECURSIVE BuildTransaction(_, _)
\* for (const recipient of batch): createAssociatedTokenAccountInstruction
\* when getAccount of the recipient's token account throws, then
\* createTransferInstruction; accounts are those getAccount finds.  Amounts
\* are in whole tokens.
BuildTransaction(batch, accounts) ==
    IF batch = <<>> THEN <<>>
    ELSE LET recipient == Head(batch)
         IN  (IF recipient.address \in accounts THEN <<>>
              ELSE <<[kind |-> "createAccount", account |-> recipient.address,
                      amount |-> 0]>>)
             \o <<[kind |-> "transfer", account |-> recipient.address,
                   amount |-> recipient.amount]>>
             \o BuildTransaction(Tail(batch), accounts)

\* how many transfers to address a the transaction carries
TransfersTo(tx, a) ==
    Cardinality({j \in DOMAIN tx : tx[j].kind = "transfer" /\ tx[j].account = a})

\* confirms the pending transaction without any of it taking effect
Execute_NothingLands(c) == [c EXCEPT !.pending = <<>>]

\* the transfers the transaction carries
TransfersOf(tx) ==
    {[account |-> tx[j].account, amount |-> tx[j].amount] :
        j \in {i \in DOMAIN tx : tx[i].kind = "transfer"}}

\* the ledger confirms the pending transaction: every instruction takes
\* effect (accounts are created, transfers received), or none does
Execute(c) ==
    LET touched == {c.pending[j].account : j \in DOMAIN c.pending}
    IN  [received |->
            [a \in Accounts(c) \cup touched |->
                Min((IF a \in Accounts(c) THEN c.received[a] ELSE 0)
                    + TransfersTo(c.pending, a), 2)],
         transfers |-> c.transfers \cup TransfersOf(c.pending),
         pending |-> <<>>]

RECURSIVE DeliverFrom(_, _, _, _)
\* the ledger after batches k..n were built, submitted and confirmed in turn
DeliverFrom(c, batches, k, n) ==
    IF k > n THEN c
    ELSE DeliverFrom(
            Execute([c EXCEPT !.pending =
                        BuildTransaction(batches[k], Accounts(c))]),
            batches, k + 1, n)

\* the ledger after sendCompressedAirdrop has returned or thrown: the
\* batches it got confirmed have taken effect
Deliver(c, recipients, result) ==
    DeliverFrom(c, BatchesFrom(recipients, 0), 1, Len(result.txIds))

\* the ledger refuses the pending transaction: nothing of it takes effect
Refuse(c) == [c EXCEPT !.pending = <<>>]

\* handleStartAirdrop up to `await sendCompressedAirdrop(...)`
BeginStartAirdrop ==
    /\ distribution.pc = "idle"
    /\ UNCHANGED <<chain, poll>>
    /\ IF StartAirdropPrecondition # ""
       THEN /\ response' = CallTool("start_airdrop",
                    ThrowMcp("InvalidRequest", StartAirdropPrecondition))
            /\ UNCHANGED <<state, heliusKey, distribution>>
       ELSE IF ~heliusKey
       THEN /\ response' = CallTool("start_airdrop",
                    Prompt("Please provide your Helius API key"))
            /\ UNCHANGED <<state, heliusKey, distribution>>
       ELSE /\ distribution' = [NoDistribution EXCEPT
                                    !.pc = "sender",
                                    !.recipients = Recipients,
                                    !.receivedBefore = chain.received]
            /\ UNCHANGED <<state, heliusKey, response>>

\* goes on to the batches whether or not the sender's token account exists
CheckSenderAccount_IgnoresAbsence(exists) ==
    /\ distribution.pc = "sender"
    /\ UNCHANGED <<chain, poll>>
    /\ distribution' =
            [distribution EXCEPT
                !.pc = "build",
                !.senderChecks = @ + 1,
                !.batches = BatchesFrom(distribution.recipients, 0)]
    /\ UNCHANGED <<state, heliusKey, response>>

\* await getAccount(connection, senderTokenAccount), then the batching
CheckSenderAccount(exists) ==
    /\ distribution.pc = "sender"
    /\ UNCHANGED <<chain, poll>>
    /\ IF ~exists
       THEN /\ response' = CallTool("start_airdrop",
                    DistributionReport(
                        [ok |-> FALSE, txIds |-> <<>>, batches |-> 0,
                         error |-> "Compressed airdrop failed: Sender's token account does not exist"]))
            /\ distribution' = NoDistribution
            /\ UNCHANGED <<state, heliusKey>>
       ELSE /\ distribution' =
                    [distribution EXCEPT
                        !.pc = "build",
                        !.senderChecks = @ + 1,
                        !.batches = BatchesFrom(distribution.recipients, 0)]
            /\ UNCHANGED <<state, heliusKey, response>>

\* submits every remaining batch without waiting for a confirmation
SubmitNext_AllAtOnce(d) ==
    [d EXCEPT !.pc = "confirm",
              !.sent = @ \o [k \in 1..(Len(d.batches) - d.i) |-> d.i + k],
              !.awaiting = (d.i + 1)..Len(d.batches)]

\* the transaction of batches[i] is built and handed to
\* sendAndConfirmTransaction
SubmitNext(d) ==
    [d EXCEPT !.pc = "confirm",
              !.sent = Append(@, d.i + 1),
              !.awaiting = {d.i + 1}]

SubmitBatch ==
    /\ distribution.pc = "build"
    /\ distribution.i < Len(distribution.batches)
    /\ distribution' = SubmitNext(distribution)
    /\ chain' = [chain EXCEPT !.pending =
                    BuildTransaction(distribution.batches[distribution.i + 1],
                                     Accounts(chain))]
    /\ UNCHANGED <<state, heliusKey, response, poll>>

\* txIds.push(signature), then i++
BatchConfirmed(d) ==
    [d EXCEPT !.pc = "build",
              !.txIds = Append(@, d.i + 1),
              !.awaiting = @ \ {d.i + 1},
              !.i = @ + 1]

\* skips the batch that failed and goes on with the next
BatchFailed_SkipsBatch(d) ==
    [d EXCEPT !.pc = "build", !.awaiting = @ \ {d.i + 1}, !.i = @ + 1]

\* catch (error) { throw error }: the loop and the function are left
BatchFailed(d) == NoDistribution

\* sendAndConfirmTransaction returns (ok) or throws; after the last batch
\* sendCompressedAirdrop returns and the handler assigns airdropStatus
ConfirmBatch(ok) ==
    /\ distribution.pc = "confirm"
    /\ chain' = IF ok THEN Execute(chain) ELSE Refuse(chain)
    /\ UNCHANGED poll
    /\ IF ~ok
       THEN /\ distribution' = BatchFailed(distribution)
            /\ response' = CallTool("start_airdrop",
                    DistributionReport(
                        [ok |-> FALSE, txIds |-> distribution.txIds,
                         batches |-> distribution.i + 1,
                         error |-> "Compressed airdrop failed: batch not sent"]))
            /\ UNCHANGED <<state, heliusKey>>
       ELSE LET d == BatchConfirmed(distribution)
                result == [ok |-> TRUE, txIds |-> d.txIds,
                           batches |-> Len(d.batches), error |-> ""]
            IN  IF d.i < Len(d.batches)
                THEN /\ distribution' = d
                     /\ UNCHANGED <<state, heliusKey, response>>
                ELSE /\ airdropStatus' = AirdropStatusAfter(result)
                     /\ response' = CallTool("start_airdrop",
                                             DistributionReport(result))
                     /\ distribution' = NoDistribution
                     /\ UNCHANGED <<connectedWallet, createdToken, employees,
                                    emailsStatus, heliusKey>>

(***************************************************************************)
(* send_emails                                                             *)
(*   args     : [fromEmail, resendApiKey], each "" when missing            *)
(*   notifier : the set of employees (indices) whose e-mail the notifier   *)
(*              fails to send                                              *)
(***************************************************************************)
\* send_emails without the check of the airdrop
SendEmailsPrecondition_NoAirdropCheck ==
    IF Len(employees) = 0 THEN "No employees added" ELSE ""

SendEmailsPrecondition ==
    IF Len(employees) = 0 THEN "No employees added"
    ELSE IF ~airdropStatus.completed THEN "Airdrop not completed"
    ELSE ""

\* counts a failing send neither as successful nor as failed
sendWalletEmails_DropsFailedSends(wallets, notifier) ==
    [successful |-> Cardinality({i \in DOMAIN wallets : i \notin notifier}),
     failed |-> 0]

\* sendWalletEmails: a failing send falls back to a simulated one and counts
\* as successful
sendWalletEmails(wallets, notifier) ==
    [successful |-> Cardinality({i \in DOMAIN wallets : i \notin notifier})
                    + Cardinality({i \in DOMAIN wallets : i \in notifier}),
     failed |-> 0]

HandleSendEmails(args, notifier) ==
    IF SendEmailsPrecondition # ""
    THEN /\ response' = CallTool("send_emails",
                ThrowMcp("InvalidRequest", SendEmailsPrecondition))
         /\ UNCHANGED <<state, heliusKey>>
    ELSE IF args.fromEmail = ""
    THEN /\ response' = CallTool("send_emails", ThrowError("ZodError"))
         /\ UNCHANGED <<state, heliusKey>>
    ELSE IF args.resendApiKey = ""
    THEN /\ response' = CallTool("send_emails",
                Prompt("Please provide your Resend API key"))
         /\ UNCHANGED <<state, heliusKey>>
    ELSE LET emailResult == sendWalletEmails(employees, notifier)
         IN  /\ emailsStatus' = [sent |-> TRUE,
                                 successful |-> emailResult.successful,
                                 failed |-> emailResult.failed]
             /\ response' = CallTool("send_emails",
                    Simulating(Invoking(Return("Emails sent to employees"),
                                        {"notifier"}),
                               notifier \cap DOMAIN employees))
             /\ UNCHANGED <<connectedWallet, createdToken, employees, airdropStatus,
                            heliusKey>>

(***************************************************************************)
(* get_state                                                               *)
(***************************************************************************)
\* what the text of get_state shows of the state
StateSnapshot ==
    [connectedWallet |-> connectedWallet,
     createdToken |->
        IF createdToken = None THEN None
        ELSE Some([name |-> The(createdToken).name,
                   symbol |-> The(createdToken).symbol,
                   supply |-> The(createdToken).supply,
                   mintAddress |-> The(createdToken).mintAddress]),
     employees |-> Len(employees),
     airdropStatus |-> IF airdropStatus.completed THEN "Completed"
                       ELSE IF airdropStatus.started THEN "In Progress"
                       ELSE "Not Started",
     emailsStatus |-> IF emailsStatus.sent THEN "Sent" ELSE "Not Sent"]

\* get_state that marks the airdrop as started
HandleGetState_MarksStarted ==
    /\ response' = CallTool("get_state",
            [Return("Current Airdrop State") EXCEPT !.snapshot = Some(StateSnapshot)])
    /\ airdropStatus' = [airdropStatus EXCEPT !.started = TRUE]
    /\ UNCHANGED <<connectedWallet, createdToken, employees, emailsStatus,
                   heliusKey>>

HandleGetState ==
    /\ response' = CallTool("get_state",
            [Return("Current Airdrop State") EXCEPT !.snapshot = Some(StateSnapshot)])
    /\ UNCHANGED <<state, heliusKey>>

(***************************************************************************)
(* Inputs.                                                                 *)
(***************************************************************************)
\* Sequences over S of length at most n
SeqUpTo(S, n) == UNION {[1..k -> S] : k \in 0..n}

Emails == {"a@x.com", "b@x.com"}

ConnectCrossmintArgs == [email : {"ok", "bad"}, apiKey : {None, Some("key")}]
ConnectWalletArgs == [privateKey : {"ok", "bad"}]
Balances == {None} \cup {Some(b) : b \in 0..MaxSol}

CreateTokenArgs ==
    {[name |-> "Acme", symbol |-> "ACM", supply |-> 1000, decimals |-> None],
     [name |-> "Beta", symbol |-> "BET", supply |-> 500, decimals |-> Some(6)],
     [name |-> "Acme", symbol |-> "ACM", supply |-> 0, decimals |-> None],
     [name |-> "Acme", symbol |-> "ACM", supply |-> 1000, decimals |-> Some(10)]}
MintAnswers == {None, Some("Mint1"), Some("Mint2")}

AddLiquidityArgs ==
    [tokenAmount : {0, 100}, solAmount : 0..(MaxSol + 1)]

ApiKeys == {None, Some("invalid"), Some("valid")}
SendEmailsArgs == [fromEmail : {"", "hr@x.com"}, resendApiKey : {"", "re_key"}]
Ledgers(n) == [senderAccount : BOOLEAN, failAt : 0..n]

(***************************************************************************)
(* The workflow: every tool, with the registry and the collaborators kept  *)
(* plain (one employee at most, custodial wallets, one-row CSV files).     *)
(***************************************************************************)
WorkflowLines == {<<"">>, <<"a@x.com">>}
WorkflowKeys == {None, Some("valid")}
WorkflowCustody ==
    {[client |-> c, answers |-> [i \in 1..n |-> "custodial"]] :
        c \in {"ok", "fail"}, n \in 0..1}
WorkflowFiles ==
    {None,
     Some([hasEmailColumn |-> TRUE, rows |-> <<>>]),
     Some([hasEmailColumn |-> TRUE,
           rows |-> <<[email |-> "a@x.com", name |-> "Ann", role |-> R_Developer]>>]),
     Some([hasEmailColumn |-> TRUE,
           rows |-> <<[email |-> "b@x.com", name |-> "", role |-> NoRole]>>])}
WorkflowAmounts ==
    {[uniformAmount |-> None, roleAmounts |-> None],
     [uniformAmount |-> Some(0), roleAmounts |-> None],
     [uniformAmount |-> Some(2000), roleAmounts |-> None],
     [uniformAmount |-> None, roleAmounts |-> Some((R_developer :> 250))]}

ConnectCrossmintWallet ==
    \E args \in ConnectCrossmintArgs, custody \in {"ok", "fail"} :
        HandleConnectCrossmintWallet(args, custody) /\ UNCHANGED <<distribution, chain, poll>>

ConnectWallet ==
    \E args \in ConnectWalletArgs, balance \in Balances :
        HandleConnectWallet(args, balance) /\ UNCHANGED <<distribution, chain, poll>>

CheckBalance == HandleCheckBalance /\ UNCHANGED <<distribution, chain, poll>>

CreateToken ==
    \E args \in CreateTokenArgs, ledger \in MintAnswers :
        HandleCreateToken(args, ledger) /\ UNCHANGED <<distribution, chain, poll>>

AddLiquidity ==
    \E args \in AddLiquidityArgs : HandleAddLiquidity(args) /\ UNCHANGED <<distribution, chain, poll>>

GenerateWallets ==
    \E text \in SeqUpTo(WorkflowLines, 1), key \in WorkflowKeys,
       custody \in WorkflowCustody :
        LET args == [employees |-> text, apiKey |-> key]
        IN  /\ CustodyAnswersFit(args, custody)
            /\ HandleGenerateWallets(args, custody)
            /\ UNCHANGED <<distribution, chain, poll>>

UploadCsv ==
    \E file \in WorkflowFiles : HandleUploadCsv(file) /\ UNCHANGED <<distribution, chain, poll>>

CalculateAmounts ==
    \E args \in WorkflowAmounts :
        HandleCalculateAmounts(args) /\ UNCHANGED <<distribution, chain, poll>>

CalculateFees == HandleCalculateFees /\ UNCHANGED <<distribution, chain, poll>>

StartAirdrop ==
    \E ledger \in Ledgers(1) : HandleStartAirdrop(ledger) /\ UNCHANGED <<distribution, chain, poll>>

SendEmails ==
    \E args \in SendEmailsArgs, notifier \in {{}, {1}} :
        HandleSendEmails(args, notifier) /\ UNCHANGED <<distribution, chain, poll>>

GetState == HandleGetState /\ UNCHANGED <<distribution, chain, poll>>

UnknownTool ==
    \E name \in {"mint_nft"} : HandleUnknownTool(name) /\ UNCHANGED <<distribution, chain, poll>>

Next ==
    \/ ConnectCrossmintWallet
    \/ ConnectWallet
    \/ CheckBalance
    \/ CreateToken
    \/ AddLiquidity
    \/ GenerateWallets
    \/ UploadCsv
    \/ CalculateAmounts
    \/ CalculateFees
    \/ StartAirdrop
    \/ SendEmails
    \/ GetState
    \/ UnknownTool

Spec == Init /\ [][Next]_vars

(***************************************************************************)
(* The distribution: registries of up to MaxRecipients employees, so that  *)
(* a distribution has several batches; the ledger may fail at any batch.   *)
(***************************************************************************)
EmployeeEmail(i) == "e" \o ToString(i) \o "@x.com"

\* the text with one line per employee 1..n
BulkText(n) == [i \in 1..n |-> <<EmployeeEmail(i)>>]
BulkCustody(n) == [client |-> "ok", answers |-> [i \in 1..n |-> "custodial"]]

\* the number of batches of the largest registry
MaxBatches == (MaxRecipients + batchSize - 1) \div batchSize

DistConnectWallet ==
    /\ HandleConnectCrossmintWallet([email |-> "ok", apiKey |-> Some("key")], "ok")
    /\ UNCHANGED <<distribution, chain, poll>>

DistCreateToken ==
    /\ HandleCreateToken([name |-> "Acme", symbol |-> "ACM", supply |-> 1000,
                          decimals |-> None], Some("Mint1"))
    /\ UNCHANGED <<distribution, chain, poll>>

DistGenerateWallets ==
    \E n \in 0..MaxRecipients :
        /\ HandleGenerateWallets([employees |-> BulkText(n),
                                  apiKey |-> Some("valid")], BulkCustody(n))
        /\ UNCHANGED <<distribution, chain, poll>>

DistCalculateAmounts ==
    /\ HandleCalculateAmounts([uniformAmount |-> None, roleAmounts |-> None])
    /\ UNCHANGED <<distribution, chain, poll>>

DistCalculateFees == HandleCalculateFees /\ UNCHANGED <<distribution, chain, poll>>

DistStartAirdrop ==
    \E ledger \in Ledgers(MaxBatches) :
        HandleStartAirdrop(ledger) /\ UNCHANGED <<distribution, chain, poll>>

DistSendEmails ==
    /\ HandleSendEmails([fromEmail |-> "hr@x.com", resendApiKey |-> "re_key"], {})
    /\ UNCHANGED <<distribution, chain, poll>>

NextDistribution ==
    \/ DistConnectWallet
    \/ DistCreateToken
    \/ DistGenerateWallets
    \/ DistCalculateAmounts
    \/ DistCalculateFees
    \/ DistStartAirdrop
    \/ DistSendEmails

SpecDistribution == Init /\ [][NextDistribution]_vars

(***************************************************************************)
(* The registry: generate_wallets, upload_csv and calculate_amounts on two *)
(* e-mail addresses, with repeated and unknown e-mails, roles in several   *)
(* letter cases and simulated as well as custodial wallets.                *)
(***************************************************************************)
RegistryLines == {<<"">>, <<"a@x.com">>, <<"b@x.com">>, <<"Ann", "a@x.com">>}
RegistryCustody ==
    {[client |-> c, answers |-> [i \in 1..n |-> a]] :
        c \in {"ok", "fail"}, n \in 0..MaxLines, a \in {"custodial", "r1"}}
RegistryRows ==
    {[email |-> "a@x.com", name |-> "Ann", role |-> R_Developer],
     [email |-> "a@x.com", name |-> "", role |-> R_VP],
     [email |-> "a@x.com", name |-> "", role |-> R_Intern],
     [email |-> "b@x.com", name |-> "", role |-> R_vip],
     [email |-> "b@x.com", name |-> "Bob", role |-> NoRole],
     [email |-> "", name |-> "", role |-> R_manager]}
WithoutEmails(rows) == [i \in DOMAIN rows |-> [rows[i] EXCEPT !.email = ""]]
RegistryFiles ==
    {None}
    \cup {Some([hasEmailColumn |-> TRUE, rows |-> r]) :
            r \in SeqUpTo(RegistryRows, MaxRows)}
    \cup {Some([hasEmailColumn |-> FALSE, rows |-> WithoutEmails(r)]) :
            r \in SeqUpTo(RegistryRows, 1)}
RegistryAmounts ==
    {[uniformAmount |-> None, roleAmounts |-> None]}

RegConnectWallet ==
    /\ HandleConnectCrossmintWallet([email |-> "ok", apiKey |-> Some("key")], "ok")
    /\ UNCHANGED <<distribution, chain, poll>>

RegGenerateWallets ==
    \E text \in SeqUpTo(RegistryLines, MaxLines), key \in ApiKeys :
        LET args == [employees |-> text, apiKey |-> key]
            n == Len(ParseEmployees(text))
        IN  \E custody \in {c \in RegistryCustody : Len(c.answers) = n} :
                /\ CustodyAnswersFit(args, custody)
                /\ HandleGenerateWallets(args, custody)
                /\ UNCHANGED <<distribution, chain, poll>>

RegUploadCsv ==
    \E file \in RegistryFiles : HandleUploadCsv(file) /\ UNCHANGED <<distribution, chain, poll>>

RegCalculateAmounts ==
    \E args \in RegistryAmounts :
        HandleCalculateAmounts(args) /\ UNCHANGED <<distribution, chain, poll>>

NextRegistry ==
    \/ RegConnectWallet
    \/ RegGenerateWallets
    \/ RegUploadCsv
    \/ RegCalculateAmounts

SpecRegistry == Init /\ [][NextRegistry]_vars

(***************************************************************************)
(* The allocation: calculate_amounts as a function of the registry and of  *)
(* its arguments.  The registries are the lists of records ServerState     *)
(* admits whose role is one of the roles the handler tells apart (the five *)
(* roles in lower case, or none).                                          *)
(***************************************************************************)
AllocationRoles == {NoRole, R_operational, R_developer, R_manager, R_vp, R_vip}

AllocationRecord(i, role) ==
    [email |-> EmployeeEmail(i), name |-> "", role |-> role,
     walletAddress |-> WalletAddress(EmployeeEmail(i), "custodial"),
     tokenAmount |-> None]

AllocationRegistries ==
    {[i \in 1..n |-> AllocationRecord(i, roles[i])] :
        n \in 1..MaxAllocated, roles \in [1..MaxAllocated -> AllocationRoles]}

AllocationRoleAmounts ==
    {None,
     Some((R_developer :> 250)),
     Some((R_VP :> 1000)),
     Some((R_manager :> 350) @@ (R_VP :> 1000) @@ (R_VIP :> 2000))}

AllocationAmounts ==
    [uniformAmount : {None, Some(50)}, roleAmounts : AllocationRoleAmounts]

InitAllocation ==
    /\ connectedWallet = None
    /\ createdToken = None
    /\ employees \in AllocationRegistries
    /\ airdropStatus = [started |-> FALSE, completed |-> FALSE,
                        successful |-> 0, failed |-> 0]
    /\ emailsStatus = [sent |-> FALSE, successful |-> 0, failed |-> 0]
    /\ heliusKey = FALSE
    /\ response = NoResponse
    /\ distribution = NoDistribution
    /\ chain = NoChain
    /\ poll = NoPoll

AllocCalculateAmounts ==
    \E args \in AllocationAmounts :
        HandleCalculateAmounts(args) /\ UNCHANGED <<distribution, chain, poll>>

NextAllocation == AllocCalculateAmounts

SpecAllocation == InitAllocation /\ [][NextAllocation]_vars

(***************************************************************************)
(* The engine: start_airdrop followed through its awaits on registries of  *)
(* up to MaxBatched employees, while generate_wallets and                  *)
(* calculate_amounts calls arrive and complete in between.                 *)
(***************************************************************************)
\* another tool call completed while the start_airdrop call was in flight
Overlap(d) ==
    IF d.pc = "idle" THEN d ELSE [d EXCEPT !.overlapped = Min(@ + 1, 2)]

EngConnectWallet ==
    /\ distribution.pc = "idle"
    /\ HandleConnectCrossmintWallet([email |-> "ok", apiKey |-> Some("key")], "ok")
    /\ UNCHANGED <<distribution, chain, poll>>

EngCreateToken ==
    /\ distribution.pc = "idle"
    /\ HandleCreateToken([name |-> "Acme", symbol |-> "ACM", supply |-> 1000,
                          decimals |-> None], Some("Mint1"))
    /\ UNCHANGED <<distribution, chain, poll>>

\* the sizes of the registries: none, one employee, a full batch, a batch
\* and one employee, the largest registry
EngineSizes == {0, 1, batchSize, batchSize + 1, MaxBatched}

EngGenerateWallets ==
    \E n \in EngineSizes :
        /\ HandleGenerateWallets([employees |-> BulkText(n),
                                  apiKey |-> Some("valid")], BulkCustody(n))
        /\ distribution' = Overlap(distribution)
        /\ UNCHANGED <<chain, poll>>

EngCalculateAmounts ==
    /\ HandleCalculateAmounts([uniformAmount |-> None, roleAmounts |-> None])
    /\ distribution' = Overlap(distribution)
    /\ UNCHANGED <<chain, poll>>

EngCheckSenderAccount == \E exists \in BOOLEAN : CheckSenderAccount(exists)

EngConfirmBatch == \E ok \in BOOLEAN : ConfirmBatch(ok)

NextEngine ==
    \/ EngConnectWallet
    \/ EngCreateToken
    \/ EngGenerateWallets
    \/ EngCalculateAmounts
    \/ BeginStartAirdrop
    \/ EngCheckSenderAccount
    \/ SubmitBatch
    \/ EngConfirmBatch

SpecEngine == Init /\ [][NextEngine]_vars

(***************************************************************************)
(* The collaborators: the workflow on one or two employees while the       *)
(* custody provider and the notifier fail for some of them.                *)
(***************************************************************************)
CollaboratorTexts == {<<<<"a@x.com">>>>, <<<<"a@x.com">>, <<"b@x.com">>>>}

\* what the custody provider does for each e-mail: it yields the custodial
\* wallet, or fails ("r1" is the random suffix of the simulated address)
CollaboratorCustody(n) ==
    [client : {"ok"}, answers : [1..n -> {"custodial", "r1"}]]

\* the employees the notifier fails for
NotifierFailures == SUBSET (1..2)

ColConnectWallet ==
    /\ HandleConnectCrossmintWallet([email |-> "ok", apiKey |-> Some("key")], "ok")
    /\ UNCHANGED <<distribution, chain, poll>>

ColCreateToken ==
    /\ HandleCreateToken([name |-> "Acme", symbol |-> "ACM", supply |-> 1000,
                          decimals |-> None], Some("Mint1"))
    /\ UNCHANGED <<distribution, chain, poll>>

ColGenerateWallets ==
    \E text \in CollaboratorTexts :
        \E custody \in CollaboratorCustody(Len(text)) :
            /\ HandleGenerateWallets([employees |-> text,
                                      apiKey |-> Some("valid")], custody)
            /\ UNCHANGED <<distribution, chain, poll>>

ColCalculateAmounts ==
    /\ HandleCalculateAmounts([uniformAmount |-> None, roleAmounts |-> None])
    /\ UNCHANGED <<distribution, chain, poll>>

ColStartAirdrop ==
    LET ledger == [senderAccount |-> TRUE, failAt |-> 0]
    IN  /\ HandleStartAirdrop(ledger)
        /\ chain' = IF StartAirdropPrecondition = "" /\ heliusKey
                     THEN Deliver(chain, Recipients,
                                  sendCompressedAirdrop(Recipients, ledger))
                     ELSE chain
        /\ UNCHANGED <<distribution, poll>>

ColSendEmails ==
    \E notifier \in NotifierFailures :
        /\ HandleSendEmails([fromEmail |-> "hr@x.com", resendApiKey |-> "re_key"],
                            notifier)
        /\ UNCHANGED <<distribution, chain, poll>>

NextCollaborators ==
    \/ ColConnectWallet
    \/ ColCreateToken
    \/ ColGenerateWallets
    \/ ColCalculateAmounts
    \/ ColStartAirdrop
    \/ ColSendEmails

SpecCollaborators == Init /\ [][NextCollaborators]_vars

(***************************************************************************)
(* transferFromCrossmintToTokenCreator: the transfer is posted to the      *)
(* custody provider, which answers with a transaction id, and its status   *)
(* is queried until it is "success", until it is "failed", or until        *)
(* maxAttempts queries were made.                                          *)
(***************************************************************************)
\* const maxAttempts = 10
maxAttempts == 10

\* what statusResponse.data.status can be
Statuses == {"pending", "awaiting-approval", "success", "failed"}

\* after the loop: return transactionId, whatever the last status
AfterPolling(p) == [p EXCEPT !.pc = "returned", !.result = Some("tx1")]

\* await axiosInstance.post(endpoint, body): the id, or the request throws
PostTransfer(ok) ==
    /\ poll.pc = "idle"
    /\ poll' = IF ok THEN [NoPoll EXCEPT !.pc = "polling"]
                ELSE [NoPoll EXCEPT !.pc = "thrown"]
    /\ UNCHANGED <<state, heliusKey, response, distribution, chain>>

\* one turn of the loop: attempts++, the status is read, "failed" throws
QueryStatus(answer) ==
    /\ poll.pc = "polling"
    /\ poll.status # "success"
    /\ poll.attempts < maxAttempts
    /\ poll' = [poll EXCEPT !.attempts = @ + 1,
                            !.status = answer,
                            !.observed = Append(@, answer),
                            !.pc = IF answer = "failed" THEN "thrown" ELSE @]
    /\ UNCHANGED <<state, heliusKey, response, distribution, chain>>

\* the status query itself throws (the provider cannot be reached)
QueryThrows ==
    /\ poll.pc = "polling"
    /\ poll.status # "success"
    /\ poll.attempts < maxAttempts
    /\ poll' = [poll EXCEPT !.attempts = @ + 1, !.pc = "thrown"]
    /\ UNCHANGED <<state, heliusKey, response, distribution, chain>>

\* the loop is left: the status is "success" or the attempts are used up
LeaveLoop ==
    /\ poll.pc = "polling"
    /\ ~(poll.status # "success" /\ poll.attempts < maxAttempts)
    /\ poll' = AfterPolling(poll)
    /\ UNCHANGED <<state, heliusKey, response, distribution, chain>>

PollPostTransfer == \E ok \in BOOLEAN : PostTransfer(ok)

PollQueryStatus == \E answer \in Statuses : QueryStatus(answer)

NextPoll ==
    \/ PollPostTransfer
    \/ PollQueryStatus
    \/ QueryThrows
    \/ LeaveLoop

SpecPoll == Init /\ [][NextPoll]_vars

(***************************************************************************)
(* The claims.                                                             *)
(***************************************************************************)
\* The prerequisites of start_airdrop, read off the state before the call.
StartAirdropPrerequisiteMissing ==
    \/ employees = <<>>
    \/ connectedWallet = None
    \/ createdToken = None
    \/ \E i \in DOMAIN employees : employees[i].tokenAmount = None

\* the number of batches a registry of n employees needs
NeededBatches(n) == (n + 4) \div 5

\* the ledger lets every batch of the registry through
NoBatchFails(ledger) ==
    ledger.failAt = 0 \/ ledger.failAt > NeededBatches(Len(employees))

\* the call reported success and marked the airdrop completed for everybody
AirdropReportedCompleted ==
    /\ response'.kind = "result"
    /\ ~response'.isError
    /\ ~response'.prompt
    /\ airdropStatus'.completed
    /\ airdropStatus'.successful = Len(employees)
    /\ airdropStatus'.failed = 0

\* C1: start_airdrop invoked while the registry is empty, no wallet is
\* connected, no token is created or some employee has no tokenAmount fails
\* with a PreconditionError, submits no batch and leaves airdropStatus as it
\* was; the registry only becomes non-empty through generate_wallets, so a
\* start_airdrop before any generate_wallets fails.
C1_StartAirdropNeedsPrerequisites ==
    [][ /\ (response'.op = "start_airdrop" /\ StartAirdropPrerequisiteMissing)
            => /\ PreconditionError(response')
               /\ response'.batches = 0
               /\ response'.submitted = 0
               /\ "ledger" \notin response'.invoked
               /\ airdropStatus' = airdropStatus
        /\ (employees = <<>> /\ employees' # <<>>)
            => response'.op = "generate_wallets" ]_vars

C1_Witness ==
    /\ response.op = "start_airdrop"
    /\ PreconditionError(response)
    /\ response.about = "Token amounts not calculated"
    /\ connectedWallet # None
    /\ createdToken # None
    /\ \E i \in DOMAIN employees : employees[i].tokenAmount = None

Requires(op) ==
    CASE op = "check_balance" -> {"No wallet connected"}
      [] op = "create_token" -> {"No wallet connected"}
      [] op = "add_liquidity" -> {"No wallet connected", "No token created"}
      [] op = "generate_wallets" -> {"No wallet connected"}
      [] op = "calculate_amounts" -> {"No employees added"}
      [] op = "calculate_fees" -> {"No employees added", "No wallet connected"}
      [] op = "start_airdrop" -> {"No employees added", "No wallet connected",
                                  "No token created", "Token amounts not calculated"}
      [] op = "send_emails" -> {"No employees added", "Airdrop not completed"}
      [] OTHER -> {}

MissingPrerequisites ==
    (IF connectedWallet = None THEN {"No wallet connected"} ELSE {})
    \cup (IF createdToken = None THEN {"No token created"} ELSE {})
    \cup (IF employees = <<>> THEN {"No employees added"} ELSE {})
    \cup (IF \E i \in DOMAIN employees : employees[i].tokenAmount = None
          THEN {"Token amounts not calculated"} ELSE {})
    \cup (IF ~airdropStatus.completed THEN {"Airdrop not completed"} ELSE {})

GuardedOperations ==
    {"check_balance", "create_token", "add_liquidity", "generate_wallets",
     "calculate_amounts", "calculate_fees", "start_airdrop", "send_emails"}

\* the call failed on a prerequisite of `missing`, called nobody and changed nothing
RefusedFor(missing) ==
    /\ PreconditionError(response')
    /\ response'.about \in missing
    /\ response'.invoked = {}
    /\ state' = state

StatePreconditionsEnforced ==
    \A op \in GuardedOperations :
        (response'.op = op /\ Requires(op) \cap MissingPrerequisites # {})
        => RefusedFor(Requires(op) \cap MissingPrerequisites)

BalanceTooLow(args) ==
    /\ connectedWallet # None
    /\ createdToken # None
    /\ The(connectedWallet).solBalance < args.solAmount

\* C3 as stated: whenever a precondition of a guarded operation is false
\* (add_liquidity's balance >= solAmount included), the call returns an error
\* naming the missing prerequisite, invokes no collaborator and leaves the
\* whole state unchanged.
C3_PreconditionsEnforced ==
    [][ /\ StatePreconditionsEnforced
        /\ \A args \in AddLiquidityArgs :
                (/\ response'.op = "add_liquidity"
                 /\ BalanceTooLow(args)
                 /\ HandleAddLiquidity(args))
                => RefusedFor({"Insufficient SOL balance"}) ]_vars

\* C3 amended: the same, except that add_liquidity reports the insufficient
\* balance only when its arguments pass validation; with invalid arguments
\* the call still fails, invokes no collaborator and changes nothing.
C3_PreconditionsEnforcedForValidArguments ==
    [][ /\ StatePreconditionsEnforced
        /\ \A args \in AddLiquidityArgs :
                (/\ response'.op = "add_liquidity"
                 /\ BalanceTooLow(args)
                 /\ HandleAddLiquidity(args))
                => /\ Failed(response')
                   /\ response'.invoked = {}
                   /\ state' = state
                   /\ (args.tokenAmount > 0 /\ args.solAmount > 0)
                        => RefusedFor({"Insufficient SOL balance"}) ]_vars

C3_Witness ==
    /\ response.op = "add_liquidity"
    /\ PreconditionError(response)
    /\ response.about = "Insufficient SOL balance"
    /\ connectedWallet # None
    /\ createdToken # None

C5_CompletedIsMonotonic ==
    [][ airdropStatus.completed => airdropStatus'.completed ]_vars

C5_Witness ==
    /\ airdropStatus.completed
    /\ response.op = "start_airdrop"
    /\ Failed(response)

\* C6: once create_token has succeeded, no later operation changes createdToken.
C6_CreatedTokenSetOnce ==
    [][ createdToken # None => createdToken' = createdToken ]_vars

\* C7: no two records of the registry have the same email.
C7_EmailsUnique ==
    \A i, j \in DOMAIN employees :
        employees[i].email = employees[j].email => i = j

\* the registry holds a record for the e-mail
KnownEmail(email) == \E i \in DOMAIN employees : employees[i].email = email

\* the import rejects no row before the i-th
FirstRejectedRow(rows, i) == \A j \in 1..(i - 1) : RowError(rows[j]).about = ""

\* the response upload_csv gives for the file in the current state
UploadCsvResponse(file) == CallTool("upload_csv", UploadCsvResult(file).outcome)

\* C8 as stated: upload_csv of a file with a row whose email is not in the
\* registry fails with a ValidationError naming that email and leaves the
\* registry unchanged.
C8_UnknownEmailRejectedAndNamed ==
    \A file \in RegistryFiles : \A csv \in file : \A i \in DOMAIN csv.rows :
        (csv.rows[i].email # "" /\ ~KnownEmail(csv.rows[i].email))
        => /\ ValidationError(UploadCsvResponse(file))
           /\ UploadCsvResponse(file).email = csv.rows[i].email
           /\ UploadCsvResult(file).employees = employees

\* C8 amended: upload_csv of a file with a row whose email is not in the
\* registry fails with a ValidationError and leaves the registry unchanged
\* (no record is created); the error names that email when the row is the
\* first row of the file that the import rejects.
C8_UnknownEmailRejected ==
    \A file \in RegistryFiles : \A csv \in file : \A i \in DOMAIN csv.rows :
        (csv.rows[i].email # "" /\ ~KnownEmail(csv.rows[i].email))
        => /\ ValidationError(UploadCsvResponse(file))
           /\ UploadCsvResult(file).employees = employees
           /\ FirstRejectedRow(csv.rows, i)
                => /\ UploadCsvResponse(file).email = csv.rows[i].email
                   /\ UploadCsvResponse(file).about
                        = "does not match any generated wallet"

C8_Witness ==
    /\ response.op = "upload_csv"
    /\ ValidationError(response)
    /\ response.about = "does not match any generated wallet"
    /\ response.email = "b@x.com"
    /\ employees # <<>>
    /\ ~KnownEmail("b@x.com")

\* the five roles, in lower case
FiveRoles == {R_operational, R_developer, R_manager, R_vp, R_vip}

\* the role is one of the five, whatever its letter case
IsOneOfFiveRoles(role) == ToLowerCase(role) \in FiveRoles

\* C9 as stated: upload_csv of a file with a row whose role is none of the
\* five roles (compared case-insensitively) is rejected with a
\* ValidationError listing the five valid roles, the registry unchanged.
C9_UnknownRoleRejectedListingRoles ==
    \A file \in RegistryFiles : \A csv \in file : \A i \in DOMAIN csv.rows :
        (csv.rows[i].role # NoRole /\ ~IsOneOfFiveRoles(csv.rows[i].role))
        => /\ ValidationError(UploadCsvResponse(file))
           /\ UploadCsvResponse(file).listsRoles
           /\ UploadCsvResult(file).employees = employees

\* C9 amended: such a file is rejected with a ValidationError and the
\* registry is unchanged; the error lists the five valid roles (and names the
\* role) when the row's email is in the registry and the row is the first
\* row of the file that the import rejects.
C9_UnknownRoleRejected ==
    \A file \in RegistryFiles : \A csv \in file : \A i \in DOMAIN csv.rows :
        (csv.rows[i].role # NoRole /\ ~IsOneOfFiveRoles(csv.rows[i].role))
        => /\ ValidationError(UploadCsvResponse(file))
           /\ UploadCsvResult(file).employees = employees
           /\ (KnownEmail(csv.rows[i].email) /\ FirstRejectedRow(csv.rows, i))
                => /\ UploadCsvResponse(file).listsRoles
                   /\ UploadCsvResponse(file).role = csv.rows[i].role

C9_Witness ==
    /\ response.op = "upload_csv"
    /\ ValidationError(response)
    /\ response.listsRoles
    /\ response.role = R_Intern
    /\ KnownEmail(response.email)

\* C10: upload_csv accepts a file whose rows all carry an email of the
\* registry and a role that is one of the five in any letter case (or no
\* role), and stores each row's role on its record.
C10_FiveRolesAcceptedInAnyCase ==
    \A file \in RegistryFiles : \A csv \in file :
        (/\ csv.hasEmailColumn
         /\ csv.rows # <<>>
         /\ \A i \in DOMAIN csv.rows :
                /\ KnownEmail(csv.rows[i].email)
                /\ (csv.rows[i].role = NoRole \/ IsOneOfFiveRoles(csv.rows[i].role)))
        => /\ ~Failed(UploadCsvResponse(file))
           /\ Len(UploadCsvResult(file).employees) = Len(csv.rows)
           /\ \A i \in DOMAIN csv.rows :
                ToLowerCase(UploadCsvResult(file).employees[i].role)
                    = ToLowerCase(csv.rows[i].role)

\* the file is accepted by upload_csv in the current state
UploadCsvAccepts(file) == UploadCsvResult(file).outcome.kind = "return"

\* C11: when upload_csv accepts a file, the record it stores for each row
\* carries the row's email with the walletAddress and the tokenAmount of a
\* record the registry held for that email before the call; when the email
\* was held once, that is the record's walletAddress and tokenAmount.
C11_UploadKeepsWalletAndAmount ==
    \A file \in RegistryFiles : \A csv \in file :
        UploadCsvAccepts(file)
        => /\ Len(UploadCsvResult(file).employees) = Len(csv.rows)
           /\ \A i \in DOMAIN csv.rows :
                LET after == UploadCsvResult(file).employees[i]
                IN  /\ after.email = csv.rows[i].email
                    /\ \E j \in DOMAIN employees :
                            /\ employees[j].email = after.email
                            /\ employees[j].walletAddress = after.walletAddress
                            /\ employees[j].tokenAmount = after.tokenAmount

\* upload_csv gave a role to a record whose amount had been calculated
\* before, when it had no role
C11_Witness ==
    /\ response.op = "upload_csv"
    /\ ~Failed(response)
    /\ \E i \in DOMAIN employees :
            /\ employees[i].role = R_developer
            /\ employees[i].tokenAmount = Some(100)

\* the key of roleAmounts that holds the amount of a stored (lower-case) role
RoleAmountsKey(role) ==
    CASE role = R_vp -> R_VP
      [] role = R_vip -> R_VIP
      [] OTHER -> role

\* the built-in amount of a role: operational=100, developer=200,
\* manager=300, VP=400, VIP=500
BuiltInAmount(role) ==
    CASE role = R_operational -> 100
      [] role = R_developer -> 200
      [] role = R_manager -> 300
      [] role = R_vp -> 400
      [] role = R_vip -> 500

\* the amount the allocation rule gives a record
RuleAmount(employee, args) ==
    IF args.uniformAmount # None THEN The(args.uniformAmount)
    ELSE IF employee.role = NoRole THEN 100
    ELSE IF /\ args.roleAmounts # None
            /\ RoleAmountsKey(employee.role) \in DOMAIN The(args.roleAmounts)
    THEN The(args.roleAmounts)[RoleAmountsKey(employee.role)]
    ELSE BuiltInAmount(employee.role)

RECURSIVE TotalOf(_)
TotalOf(list) ==
    IF list = <<>> THEN 0
    ELSE TotalOf(SubSeq(list, 1, Len(list) - 1)) + The(list[Len(list)].tokenAmount)

AmountsPositive(args) ==
    /\ \A u \in args.uniformAmount : u > 0
    /\ \A f \in args.roleAmounts : \A k \in DOMAIN f : f[k] > 0

\* every record of the registry has a token amount
EveryAmountSet(list) == \A i \in DOMAIN list : list[i].tokenAmount # None

\* C14 as stated: calculate_amounts fails only when the registry is empty;
\* with a non-empty registry it succeeds and sets tokenAmount on every
\* record, whether or not a token exists and whatever its supply.
C14_FailsOnlyOnEmptyRegistry ==
    [][ response'.op = "calculate_amounts"
        => /\ Failed(response') <=> employees = <<>>
           /\ employees # <<>> => EveryAmountSet(employees') ]_vars

\* C14 amended: calculate_amounts fails only when the registry is empty or
\* an amount among its arguments is not positive, and a failing call
\* changes nothing; with a non-empty registry and positive amounts it
\* succeeds and sets tokenAmount on every record, whether or not a token
\* exists and whatever its supply.
C14_FailsOnlyOnEmptyRegistryOrBadAmounts ==
    [][ \A args \in WorkflowAmounts :
            (response'.op = "calculate_amounts" /\ HandleCalculateAmounts(args))
            => /\ Failed(response') <=> (employees = <<>> \/ ~AmountsPositive(args))
               /\ employees = <<>> => PreconditionError(response')
               /\ Failed(response') => state' = state
               /\ ~Failed(response')
                    => /\ EveryAmountSet(employees')
                       /\ Len(employees') = Len(employees) ]_vars

\* the amounts were calculated although they exceed the supply of the token
C14_Witness ==
    /\ response.op = "calculate_amounts"
    /\ ~Failed(response)
    /\ createdToken # None
    /\ response.total > The(createdToken).supply
    /\ EveryAmountSet(employees)

\* C15: add_liquidity succeeds only with a wallet connected, a token created
\* and solBalance >= solAmount, and then lowers solBalance by exactly
\* solAmount; the balance of the connected wallet is never negative.
C15_LiquidityWithinBalance ==
    [][ /\ \A args \in AddLiquidityArgs :
                (/\ response'.op = "add_liquidity"
                 /\ ~Failed(response')
                 /\ HandleAddLiquidity(args))
                => /\ connectedWallet # None
                   /\ createdToken # None
                   /\ The(connectedWallet).solBalance >= args.solAmount
                   /\ connectedWallet' # None
                   /\ The(connectedWallet').solBalance
                        = The(connectedWallet).solBalance - args.solAmount
                   /\ The(connectedWallet').publicKey = The(connectedWallet).publicKey
        /\ \A wallet \in connectedWallet' : wallet.solBalance >= 0 ]_vars

\* add_liquidity spent the whole balance
C15_Witness ==
    /\ response.op = "add_liquidity"
    /\ ~Failed(response)
    /\ connectedWallet # None
    /\ The(connectedWallet).solBalance = 0

\* C16: for every recipient count N the fee calculator gives
\* accountCreationFee = K1*N and transactionFee = K2*N, with K1 = 0.00001 SOL
\* and K2 = 0.000005 SOL (10 and 5 millionths), and their sum as the total;
\* N = 0 gives all-zero fees; the fees calculate_fees reports are those of
\* the fee calculator for the number of employees.
C16_FeesLinearInRecipients ==
    /\ \A n \in 0..(MaxRecipients + 1) :
            LET fees == calculateAirdropFees(n)
            IN  /\ fees.accountCreationFee = 10 * n
                /\ fees.transactionFee = 5 * n
                /\ fees.totalFees = fees.accountCreationFee + fees.transactionFee
    /\ calculateAirdropFees(0)
            = [accountCreationFee |-> 0, transactionFee |-> 0, totalFees |-> 0]
    /\ (response.op = "calculate_fees" /\ ~Failed(response))
        => \E report \in response.fees :
                LET fees == calculateAirdropFees(Len(employees))
                IN  /\ report.employeeCount = Len(employees)
                    /\ report.accountCreationFee = fees.accountCreationFee
                    /\ report.transactionFee = fees.transactionFee
                    /\ report.totalFees = fees.totalFees

\* calculate_fees reported the fees of a registry of more than one batch
C16_Witness ==
    /\ response.op = "calculate_fees"
    /\ ~Failed(response)
    /\ Len(employees) > batchSize
    /\ \E report \in response.fees : report.totalFees = 15 * Len(employees)

ReadOnlyOperations == {"get_state", "check_balance", "calculate_fees"}

\* C17: get_state, check_balance and calculate_fees change no field of the
\* state; the snapshot get_state returns is determined by the state alone,
\* and get_state called right after get_state returns the same response.
C17_ReadOnlyOperations ==
    [][ /\ response'.op \in ReadOnlyOperations => state' = state
        /\ response'.op = "get_state"
            => /\ ~Failed(response')
               /\ response'.snapshot = Some(StateSnapshot)
        /\ (response.op = "get_state" /\ response'.op = "get_state")
            => response' = response ]_vars

\* get_state showed a completed airdrop
C17_Witness ==
    /\ response.op = "get_state"
    /\ \E snapshot \in response.snapshot :
            /\ snapshot.airdropStatus = "Completed"
            /\ snapshot.employees = Len(employees)
            /\ snapshot.employees > 0
            /\ snapshot.connectedWallet = connectedWallet

\* C18: send_emails calls the notifier, and touches emailsStatus, only when
\* the registry is non-empty and the airdrop is completed; when it completes
\* it has called the notifier and set emailsStatus.sent with successful +
\* failed equal to the number of employees; no other operation changes
\* emailsStatus.
C18_EmailsOnlyAfterAirdrop ==
    [][ /\ response'.op = "send_emails"
            => /\ ("notifier" \in response'.invoked \/ emailsStatus' # emailsStatus)
                    => (employees # <<>> /\ airdropStatus.completed)
               /\ (~Failed(response') /\ ~response'.prompt)
                    => /\ "notifier" \in response'.invoked
                       /\ emailsStatus'.sent
                       /\ emailsStatus'.successful + emailsStatus'.failed
                            = Len(employees)
               /\ (Failed(response') \/ response'.prompt)
                    => /\ emailsStatus' = emailsStatus
                       /\ "notifier" \notin response'.invoked
        /\ response'.op # "send_emails" => emailsStatus' = emailsStatus ]_vars

\* the e-mails were sent to the whole registry
C18_Witness ==
    /\ response.op = "send_emails"
    /\ ~Failed(response)
    /\ "notifier" \in response.invoked
    /\ emailsStatus.sent
    /\ Len(employees) > 0
    /\ emailsStatus.successful = Len(employees)
    /\ airdropStatus.completed

\* the non-blank lines of a text, in order
NonBlankLines(text) == SelectSeq(text, LAMBDA line : line # <<"">>)

\* the e-mail and the name a line gives: "name,email" or "email"
LineEmail(line) == IF Len(line) >= 2 THEN line[2] ELSE line[1]
LineName(line) == IF Len(line) >= 2 THEN line[1] ELSE ""

\* C19: a successful generate_wallets replaces the registry by one record
\* per non-blank line, in the order of the lines, each with the line's
\* email, the line's name when it has one, and the wallet address the
\* custody provider gave for that email.
C19_RegistryIsOneRecordPerLine ==
    [][ \A text \in SeqUpTo(RegistryLines, MaxLines), key \in ApiKeys,
           custody \in RegistryCustody :
            LET args == [employees |-> text, apiKey |-> key]
                lines == NonBlankLines(text)
            IN  (/\ response'.op = "generate_wallets"
                 /\ ~Failed(response')
                 /\ ~response'.prompt
                 /\ CustodyAnswersFit(args, custody)
                 /\ HandleGenerateWallets(args, custody))
                => /\ Len(employees') = Len(lines)
                   /\ \A i \in DOMAIN lines :
                        /\ employees'[i].email = LineEmail(lines[i])
                        /\ employees'[i].name = LineName(lines[i])
                        /\ employees'[i].walletAddress
                            = WalletAddress(LineEmail(lines[i]), custody.answers[i]) ]_vars

\* the texts without an e-mail: blank lines only
BlankTexts == {[i \in 1..n |-> <<"">>] : n \in 0..MaxLines}

\* the custody provider asked for no wallet
IdleCustody == {[client |-> c, answers |-> <<>>] : c \in {"ok", "fail"}}

\* the response generate_wallets gives for the arguments in the current state
GenerateWalletsResponse(args, custody) ==
    CallTool("generate_wallets", GenerateWalletsResult(args, custody).outcome)

C21_WalletAddressImmutable ==
    [][ \A i \in DOMAIN employees : \A j \in DOMAIN employees' :
            employees'[j].email = employees[i].email
            => employees'[j].walletAddress = employees[i].walletAddress ]_vars

\* a start_airdrop call whose last batch is being confirmed completes
StartAirdropCompletes ==
    /\ distribution.pc = "confirm"
    /\ distribution'.pc = "idle"
    /\ response'.op = "start_airdrop"
    /\ ~Failed(response')

\* C22: when one other tool call was dispatched while start_airdrop awaited
\* the ledger, the state start_airdrop leaves is the one the two calls give
\* when run one after the other: start_airdrop first (it counts the
\* employees it distributed to, and the other call's registry stands), or
\* the other call first (start_airdrop passes its checks on the registry of
\* that call and counts its employees).
C22_ConcurrentCallsSerialized ==
    [][ (StartAirdropCompletes /\ distribution.overlapped <= 1)
        => /\ employees' = employees
           /\ airdropStatus'.completed
           /\ \/ airdropStatus'.successful = Len(distribution.recipients)
              \/ /\ StartAirdropPrecondition = ""
                 /\ airdropStatus'.successful = Len(employees) ]_vars

\* the codes of the McpErrors the handlers throw
HandlerErrorCodes == {"InvalidRequest", "InvalidParams", "InternalError"}

\* the request named no tool of the server
UnknownOperation(r) == r.op \notin ToolNames \cup {""}

\* C23 as stated: every error raised inside a handler is returned as a
\* result flagged as error; only an unknown operation name is raised as the
\* protocol-level error "method not found"; a failing call leaves the state
\* as it was.
C23_EveryHandlerErrorReturned ==
    [][ /\ (response'.op \in ToolNames /\ Failed(response'))
            => (response'.kind = "result" /\ response'.isError)
        /\ UnknownOperation(response')
            => (response'.kind = "protocolError"
                /\ response'.code = "MethodNotFound")
        /\ Failed(response') => state' = state ]_vars

\* C23 amended: an error raised inside a handler that is not an McpError
\* (a schema validation error) is returned as a result flagged as error;
\* an McpError raised by a handler (InvalidRequest, InvalidParams,
\* InternalError) is raised again and reaches the client as a protocol-level
\* error carrying its code; an unknown operation name is raised as the
\* protocol-level error "method not found", which no known operation
\* raises.  A failing call leaves the state as it was.
C23_ErrorsReachTheClient ==
    [][ /\ response'.op \in ToolNames
            => /\ response'.isError
                    => (response'.kind = "result" /\ response'.code = "")
               /\ response'.code # ""
                    => (response'.kind = "protocolError"
                        /\ response'.code \in HandlerErrorCodes)
               /\ response'.kind = "protocolError" => response'.code # ""
        /\ UnknownOperation(response')
            => (response'.kind = "protocolError"
                /\ response'.code = "MethodNotFound")
        /\ Failed(response') => state' = state ]_vars

\* a schema error of create_token came back as a result flagged as error
C23_Witness ==
    /\ response.op = "create_token"
    /\ response.kind = "result"
    /\ response.isError
    /\ connectedWallet # None
    /\ createdToken = None

\* C24: create_token with a wallet connected and valid arguments, when the
\* ledger fails during the creation of the token, still returns a result
\* that reports no error and sets createdToken (to a simulated token).
C24_CreateTokenDegradesGracefully ==
    [][ \A args \in CreateTokenArgs :
            (/\ response'.op = "create_token"
             /\ connectedWallet # None
             /\ CreateTokenArgsValid(args)
             /\ HandleCreateToken(args, None))
            => /\ ~Failed(response')
               /\ createdToken' # None ]_vars

\* the e-mails of a text, one per line
TextEmails(text) == [i \in DOMAIN text |-> LineEmail(text[i])]

\* C25: a failure of the custody provider or of the notifier for an
\* individual employee never aborts the call: generate_wallets still stores
\* a record for every e-mail, in order, with a simulated address where the
\* provider failed, and send_emails still completes, sets emailsStatus.sent
\* and counts every employee as successful, none as failed.
C25_EmployeeFailureNeverAborts ==
    [][ /\ \A text \in CollaboratorTexts :
            \A custody \in CollaboratorCustody(Len(text)) :
                (/\ response'.op = "generate_wallets"
                 /\ connectedWallet # None
                 /\ HandleGenerateWallets([employees |-> text,
                                           apiKey |-> Some("valid")], custody))
                => /\ ~Failed(response')
                   /\ Len(employees') = Len(text)
                   /\ \A i \in DOMAIN text :
                        /\ employees'[i].email = TextEmails(text)[i]
                        /\ IsRandomAnswer(custody.answers[i])
                            => /\ employees'[i].walletAddress[1] = "wallet"
                               /\ i \in response'.simulated
                        /\ ~IsRandomAnswer(custody.answers[i])
                            => employees'[i].walletAddress
                                = <<"custodial", employees'[i].email>>
        /\ \A notifier \in NotifierFailures :
                (/\ response'.op = "send_emails"
                 /\ SendEmailsPrecondition = ""
                 /\ HandleSendEmails([fromEmail |-> "hr@x.com",
                                      resendApiKey |-> "re_key"], notifier))
                => /\ ~Failed(response')
                   /\ emailsStatus'.sent
                   /\ emailsStatus'.successful = Len(employees)
                   /\ emailsStatus'.failed = 0 ]_vars

\* the e-mails went out although the custody provider had failed for the
\* first employee and the notifier failed for the second
C25_Witness ==
    /\ response.op = "send_emails"
    /\ ~Failed(response)
    /\ response.simulated = {2}
    /\ Len(employees) = 2
    /\ employees[1].walletAddress[1] = "wallet"
    /\ employees[2].walletAddress[1] = "custodial"
    /\ emailsStatus = [sent |-> TRUE, successful |-> 2, failed |-> 0]

\* the call asked for the key: no error, no collaborator called, nothing changed
AsksForKey ==
    /\ ~Failed(response')
    /\ response'.prompt
    /\ response'.invoked = {}
    /\ state' = state

\* the call did not fail, and changed nothing if it only asked for the key
DoesNotFail ==
    /\ ~Failed(response')
    /\ response'.prompt => state' = state

\* the call failed on a requirement other than the key and changed nothing
FailsWithoutTheKeyToo ==
    /\ Failed(response')
    /\ response'.invoked = {}
    /\ state' = state

InputRejected(r) ==
    \/ ValidationError(r)
    \/ (r.kind = "result" /\ r.isError /\ r.about = "ZodError")

\* the call failed with a validation error and changed nothing
RejectsInput ==
    /\ InputRejected(response')
    /\ ~PreconditionError(response')
    /\ ~ExecutionError(response')
    /\ state' = state

\* C27: with its preconditions met, an operation invoked with malformed
\* input (connect_wallet with an undecodable private key, create_token with
\* supply <= 0 or decimals outside [0,9], add_liquidity with a non-positive
\* amount, upload_csv with no rows or no email column) fails with a
\* validation error, told apart from PreconditionError and ExecutionError,
\* and leaves the state unchanged.
C27_MalformedInputIsValidationError ==
    [][ /\ \A balance \in Balances :
                (/\ response'.op = "connect_wallet"
                 /\ HandleConnectWallet([privateKey |-> "bad"], balance))
                => RejectsInput
        /\ \A args \in CreateTokenArgs, ledger \in MintAnswers :
                (/\ response'.op = "create_token"
                 /\ connectedWallet # None
                 /\ ~CreateTokenArgsValid(args)
                 /\ HandleCreateToken(args, ledger))
                => RejectsInput
        /\ \A args \in AddLiquidityArgs :
                (/\ response'.op = "add_liquidity"
                 /\ connectedWallet # None
                 /\ createdToken # None
                 /\ ~AddLiquidityArgsValid(args)
                 /\ HandleAddLiquidity(args))
                => RejectsInput
        /\ \A file \in WorkflowFiles : \A csv \in file :
                (/\ response'.op = "upload_csv"
                 /\ (csv.rows = <<>> \/ ~csv.hasEmailColumn)
                 /\ HandleUploadCsv(file))
                => RejectsInput ]_vars

\* the batches put end to end
RECURSIVE Flatten(_)
Flatten(batches) ==
    IF batches = <<>> THEN <<>> ELSE Head(batches) \o Flatten(Tail(batches))

\* the sizes of the batches, in order
BatchSizes(batches) == [k \in DOMAIN batches |-> Len(batches[k])]

\* the batches are a partition of the list into consecutive groups of 5,
\* the last of 1 to 5
PartitionsInFives(batches, list) ==
    /\ Len(batches) = (Len(list) + 4) \div 5
    /\ \A k \in 1..(Len(batches) - 1) : Len(batches[k]) = 5
    /\ batches # <<>> => Len(batches[Len(batches)]) \in 1..5
    /\ Flatten(batches) = list

\* C28: the distribution engine partitions N recipients into ceil(N/5)
\* consecutive batches, each of 5 recipients but the last, which has 1 to 5,
\* and the batches put end to end give back the recipient list: for every
\* list of up to MaxBatched recipients, and for the recipients of every
\* start_airdrop call in flight; 13 recipients give batches of 5, 5 and 3,
\* no recipient gives no batch.
C28_BatchesPartitionRecipients ==
    /\ \A n \in 0..MaxBatched :
            LET list == [k \in 1..n |-> EmployeeEmail(k)]
            IN  PartitionsInFives(BatchesFrom(list, 0), list)
    /\ BatchSizes(BatchesFrom([k \in 1..13 |-> k], 0)) = <<5, 5, 3>>
    /\ BatchesFrom(<<>>, 0) = <<>>
    /\ distribution.pc \in {"build", "confirm"}
        => /\ PartitionsInFives(distribution.batches, distribution.recipients)
           /\ distribution.recipients # <<>>

\* the third batch of a distribution to 13 recipients awaits its confirmation
C28_Witness ==
    /\ distribution.pc = "confirm"
    /\ Len(distribution.recipients) = 13
    /\ BatchSizes(distribution.batches) = <<5, 5, 3>>
    /\ distribution.awaiting = {3}
    /\ Len(distribution.batches[3]) = 3


\* the ledger refuses the batch awaited: sendAndConfirmTransaction throws
BatchSubmissionFails == ConfirmBatch(FALSE)

\* the batches whose transaction the ledger confirmed in the call in flight
ConfirmedBatches == {distribution.txIds[k] : k \in DOMAIN distribution.txIds}

\* C29: the distribution aborts on the first failing batch.  When the
\* submission of batch k fails the call is over at that step (nothing of it
\* is left that could submit a later batch or submit batch k again), it
\* raises an execution error and records no completed airdrop; and at every
\* moment of a call no batch was submitted twice and every batch before a
\* submitted one was confirmed, so no failed batch was retried or skipped.
C29_AbortsOnFirstFailingBatch ==
    /\ [][BatchSubmissionFails
            => /\ distribution'.pc = "idle"
               /\ distribution'.sent = <<>>
               /\ distribution'.awaiting = {}
               /\ ExecutionError(response')
               /\ response'.op = "start_airdrop"
               /\ response'.submitted = Len(distribution.txIds)
               /\ response'.batches = distribution.i + 1
               /\ airdropStatus' = airdropStatus]_vars
    /\ [](/\ \A j, k \in DOMAIN distribution.sent :
                distribution.sent[j] = distribution.sent[k] => j = k
          /\ \A k \in DOMAIN distribution.sent :
                1..(distribution.sent[k] - 1) \subseteq ConfirmedBatches)

\* the second of three batches failed after the first was confirmed: the call
\* has ended with an execution error and the third batch was never attempted
C29_Witness ==
    /\ response.op = "start_airdrop"
    /\ ExecutionError(response)
    /\ response.submitted = 1
    /\ response.batches = 2
    /\ Len(employees) = MaxBatched
    /\ distribution.pc = "idle"
    /\ ~airdropStatus.completed


\* C30: batches are submitted strictly sequentially in list order.  In every
\* state of a call at most one batch submission awaits its confirmation; the
\* batch awaited is the one right after the confirmed ones, and no batch is
\* built or submitted beyond it; the recorded transaction ids are those of
\* batches 1, 2, ... in this order.  A batch is submitted only in a step that
\* starts with nothing in flight and every earlier batch confirmed.
C30_BatchesStrictlySequential ==
    /\ [](/\ Cardinality(distribution.awaiting) <= 1
          /\ distribution.txIds = [k \in 1..Len(distribution.txIds) |-> k]
          /\ distribution.sent = [k \in 1..Len(distribution.sent) |-> k]
          /\ distribution.awaiting \subseteq {Len(distribution.txIds) + 1}
          /\ Len(distribution.sent)
                = Len(distribution.txIds) + Cardinality(distribution.awaiting)
          /\ distribution.pc = "confirm" <=> distribution.awaiting # {})
    /\ [][Len(distribution'.sent) > Len(distribution.sent)
            => /\ distribution.awaiting = {}
               /\ Len(distribution.txIds) = Len(distribution.sent)
               /\ Len(distribution'.sent) = Len(distribution.sent) + 1]_vars

\* the second batch awaits its confirmation after the first was confirmed,
\* and a third is still to be built
C30_Witness ==
    /\ distribution.pc = "confirm"
    /\ distribution.awaiting = {2}
    /\ distribution.txIds = <<1>>
    /\ distribution.sent = <<1, 2>>
    /\ Len(distribution.batches) = 3


\* the look-up of the sender's token account fails: getAccount throws
SenderAccountAbsent == CheckSenderAccount(FALSE)

\* C31: the sender's token account for the mint is checked exactly once,
\* before any batch is built.  While a call builds or submits batches it has
\* made the check once; before the check no batch exists and none was
\* submitted; the check is made only at the start of the call.  When the
\* account is absent the call fails at that step, with no batch built and
\* none submitted, and airdropStatus as it was.
C31_SenderAccountCheckedOnceFirst ==
    /\ [](/\ distribution.pc \in {"build", "confirm"}
                => distribution.senderChecks = 1
          /\ distribution.pc \in {"idle", "sender"}
                => /\ distribution.senderChecks = 0
                   /\ distribution.batches = <<>>
                   /\ distribution.sent = <<>>
                   /\ distribution.txIds = <<>>)
    /\ [][distribution'.senderChecks > distribution.senderChecks
            => /\ distribution.pc = "sender"
               /\ distribution.senderChecks = 0]_vars
    /\ [][SenderAccountAbsent
            => /\ distribution'.pc = "idle"
               /\ distribution'.sent = <<>>
               /\ response'.op = "start_airdrop"
               /\ Failed(response')
               /\ response'.batches = 0
               /\ response'.submitted = 0
               /\ airdropStatus' = airdropStatus]_vars

\* a call on 13 recipients has failed at the look-up of the sender's account
C31_Witness ==
    /\ response.op = "start_airdrop"
    /\ ExecutionError(response)
    /\ response.batches = 0
    /\ response.submitted = 0
    /\ "ledger" \in response.invoked
    /\ Len(employees) = MaxBatched
    /\ distribution.pc = "idle"


\* how many instructions creating the account of address a the transaction
\* carries
CreationsOf(tx, a) ==
    Cardinality({j \in DOMAIN tx : tx[j].kind = "createAccount"
                                   /\ tx[j].account = a})

\* how many recipients of the batch have address a
RecipientsAt(batch, a) ==
    Cardinality({k \in DOMAIN batch : batch[k].address = a})

\* the transaction has, for each recipient of the batch, one transfer, and
\* one account creation right before it when the recipient's account is not
\* among accounts, none otherwise; it has nothing else
OneTransferPerRecipient(tx, batch, accounts) ==
    /\ \A k \in DOMAIN batch :
            LET a == batch[k].address
            IN  /\ TransfersTo(tx, a) = RecipientsAt(batch, a)
                /\ CreationsOf(tx, a)
                        = IF a \in accounts THEN 0 ELSE RecipientsAt(batch, a)
    /\ \A j \in DOMAIN tx :
            /\ \E k \in DOMAIN batch : batch[k].address = tx[j].account
            /\ tx[j].kind = "createAccount"
                    => /\ j < Len(tx)
                       /\ tx[j + 1].kind = "transfer"
                       /\ tx[j + 1].account = tx[j].account
            /\ (tx[j].kind = "transfer" /\ tx[j].account \notin accounts)
                    => /\ j > 1
                       /\ tx[j - 1].kind = "createAccount"
                       /\ tx[j - 1].account = tx[j].account

\* the batch whose transaction awaits its confirmation
BatchInFlight == distribution.batches[distribution.i + 1]

\* C32: within each batch transaction every recipient has exactly one
\* transfer instruction; a recipient whose destination account does not exist
\* has exactly one account-creation instruction, right before its transfer
\* in the same transaction, and a recipient whose account exists has none.
\* Checked of the transaction in flight of every call, and of the transaction
\* the engine builds for that batch whichever of its recipients' accounts
\* exist.
C32_OneTransferPerRecipient ==
    distribution.pc = "confirm"
        => /\ OneTransferPerRecipient(chain.pending, BatchInFlight,
                                      Accounts(chain))
           /\ \A k \in DOMAIN BatchInFlight :
                    RecipientsAt(BatchInFlight, BatchInFlight[k].address) = 1
           /\ \A accounts \in SUBSET {BatchInFlight[k].address :
                                        k \in DOMAIN BatchInFlight} :
                    OneTransferPerRecipient(
                        BuildTransaction(BatchInFlight, accounts),
                        BatchInFlight, accounts)

\* a transaction in flight with a transfer to an account that exists, and
\* with the creation of an account that does not
C32_Witness ==
    /\ distribution.pc = "confirm"
    /\ \E j \in DOMAIN chain.pending :
            /\ chain.pending[j].kind = "transfer"
            /\ chain.pending[j].account \in Accounts(chain)
    /\ \E j \in DOMAIN chain.pending :
            /\ chain.pending[j].kind = "createAccount"
            /\ chain.pending[j].account \notin Accounts(chain)
    /\ Len(BatchInFlight) = batchSize


\* what address a has received on the ledger (0 without an account)
Received(received, a) == IF a \in DOMAIN received THEN received[a] ELSE 0

\* the addresses of the recipients of the batches numbered in ks
AddressesOf(d, ks) ==
    UNION {{d.batches[b][k].address : k \in DOMAIN d.batches[b]} :
                b \in ks \cap DOMAIN d.batches}

\* start_airdrop reports a failure in this step
StartAirdropFails == ConfirmBatch(FALSE) \/ CheckSenderAccount(FALSE)

C34_AtMostOnceDistribution ==
    \A a \in Accounts(chain) : chain.received[a] <= 1


\* send_emails runs the notifier in this step
NotifierRuns ==
    /\ response'.op = "send_emails"
    /\ "notifier" \in response'.invoked

C36_WorkflowStateInvariant ==
    /\ emailsStatus.sent => airdropStatus.completed
    /\ airdropStatus.completed
            => /\ connectedWallet # None
               /\ createdToken # None
               /\ Len(employees) > 0
    /\ createdToken # None => connectedWallet # None

\* the e-mails were sent, and the registry was imported from a file after
\* the airdrop had completed
C36_Witness ==
    /\ emailsStatus.sent
    /\ airdropStatus.completed
    /\ createdToken # None
    /\ response.op = "upload_csv"
    /\ ~Failed(response)


\* the e-mails of a registry
EmailsOf(registry) == {registry[i].email : i \in DOMAIN registry}

\* C37: a successful upload_csv never removes an employee: the set of
\* e-mails in the registry after the import equals the set before it, and
\* the number of records is unchanged.
C37_UploadNeverRemoves ==
    [][(response'.op = "upload_csv" /\ ~Failed(response'))
        => /\ EmailsOf(employees') = EmailsOf(employees)
           /\ Len(employees') = Len(employees)]_vars


\* the files with a rejected row after a first row that is accepted
RejectedAfterAccepted ==
    {file \in RegistryFiles \ {None} :
        /\ The(file).hasEmailColumn
        /\ Len(The(file).rows) >= 2
        /\ RowError(The(file).rows[1]).about = ""
        /\ \E i \in 2..Len(The(file).rows) :
                RowError(The(file).rows[i]).about # ""}

\* C38: upload_csv is atomic.  A call that fails, because a row of the file
\* has no e-mail, an e-mail the registry does not hold or an invalid role,
\* or because the file is empty, lacks the email column or cannot be read,
\* leaves the registry and the rest of the state exactly as before the call.
C38_UploadIsAtomic ==
    [][(response'.op = "upload_csv" /\ Failed(response'))
        => /\ employees' = employees
           /\ state' = state]_vars

\* upload_csv has rejected a file whose first row was valid and changed the
\* name or the role of the record it names
C38_Witness ==
    \E file \in RejectedAfterAccepted :
        /\ response = CallTool("upload_csv",
                               Invoking(UploadCsvResult(file).outcome, {"fs"}))
        /\ ValidationError(response)
        /\ MergeRow(The(file).rows[1]) # employees[EmailIndex(The(file).rows[1].email)]


\* the arguments calculate_amounts accepts in the workflow specification
AcceptedAmounts == {args \in WorkflowAmounts : CalculateAmountsArgsValid(args)}

\* the roles a record of the registry can hold
StoredRoles == {NoRole, R_operational, R_developer, R_manager, R_vp, R_vip}

\* start_airdrop is called in this step and passes its preconditions
StartAirdropPasses ==
    /\ response'.op = "start_airdrop"
    /\ StartAirdropPrecondition = ""

C40_PollReturnsOnlyOnSuccess ==
    /\ poll.attempts <= 10
    /\ Len(poll.observed) <= 10
    /\ (\E k \in DOMAIN poll.observed : poll.observed[k] = "failed")
            => /\ poll.pc = "thrown"
               /\ poll.observed[Len(poll.observed)] = "failed"
    /\ poll.pc = "returned"
            => /\ poll.result = Some("tx1")
               /\ \E k \in DOMAIN poll.observed : poll.observed[k] = "success"

====
